---- MODULE Spec2Model ----
(***************************************************************************)
(* Maxwell DMA engine front-end (maxwell_dma.cpp) and the block-linear     *)
(* texture layout / swizzle copier (gpu/texture/layout.cpp) of Skyline.    *)
(*                                                                         *)
(* Fixed-width integers: TLC's integers are 32-bit signed, so a u32 is a   *)
(* pair <<lo16, hi16>> and a u64 a 4-tuple of 16-bit limbs, least          *)
(* significant first; sums and products are computed limb by limb and cut  *)
(* to the width the C++ expression has.                                    *)
(***************************************************************************)
EXTENDS Integers, Sequences, FiniteSets, TLC

VARIABLES regs,      \* MaxwellDma::registers.raw, method -> u32 word
          trace,     \* calls made on the collaborators by the last entry-point call
          lastCall,  \* the last entry-point call and its arguments
          gpuTime,   \* value the next GetGpuTimeTicks() returns
          mmu,       \* GMMU view: GPU VA -> number of host spans TranslateRange yields
          calls,     \* entry-point calls made so far
          cp,        \* parameters of the swizzle-copier call under test
          pitchBuf,  \* pitch-linear buffer handed to the copier
          blBuf,     \* block-linear buffer handed to the copier
          phase      \* position of the copier scenario

vars == <<regs, trace, lastCall, gpuTime, mmu, calls, cp, pitchBuf, blBuf, phase>>

dmaVars == <<regs, trace, lastCall, gpuTime, mmu, calls>>

copyVars == <<cp, pitchBuf, blBuf, phase>>

-----------------------------------------------------------------------------
(* Fixed-width arithmetic on 16-bit limbs *)

Limb == 2^16

\* a natural below 2^31 as a u32
U32(n) == <<n % Limb, n \div Limb>>

\* a natural below 2^31 as a u64
U64(n) == <<n % Limb, n \div Limb, 0, 0>>

\* zero extension u32 -> u64 (the u64{...} initialisers)
Ext(a) == <<a[1], a[2], 0, 0>>

\* the u64 formed by two register words (Address{high, low})
Join(high, low) == <<low[1], low[2], high[1], high[2]>>

IsZero(a) == \A i \in DOMAIN a : a[i] = 0

\* the value of a limb tuple as a TLC integer; only for values below 2^31
ToNat(a) == IF Len(a) = 1 THEN a[1] ELSE a[1] + Limb * a[2]

RECURSIVE AddCarry(_, _, _, _)
\* limbs i.. of a + b + carry, cut to Len(a) limbs
AddCarry(a, b, i, carry) ==
    IF i > Len(a) THEN <<>>
    ELSE LET s == a[i] + b[i] + carry
         IN  <<s % Limb>> \o AddCarry(a, b, i + 1, s \div Limb)

\* a + b modulo 2^(16 * Len(a)); a and b have the same width
Add(a, b) == AddCarry(a, b, 1, 0)

\* x * y for 16-bit x, y as <<lo16, hi16>>, without leaving 31 bits
Mul16(x, y) ==
    LET p0 == x * (y % 256)
        p1 == x * (y \div 256)
        s  == p0 + (p1 % 256) * 256
    IN  <<s % Limb, (s \div Limb) + (p1 \div 256)>>

\* the exact 64-bit product of two u32
MulWide(a, b) ==
    LET c00 == Mul16(a[1], b[1])
        c01 == Mul16(a[1], b[2])
        c10 == Mul16(a[2], b[1])
        c11 == Mul16(a[2], b[2])
        t1  == c00[2] + c01[1] + c10[1]
        t2  == c01[2] + c10[2] + c11[1] + (t1 \div Limb)
        t3  == c11[2] + (t2 \div Limb)
    IN  <<c00[1], t1 % Limb, t2 % Limb, t3 % Limb>>

\* u32 * u32 as C++ computes it: the product modulo 2^32
MulU32(a, b) == LET w == MulWide(a, b) IN <<w[1], w[2]>>

\* util::AlignDown(value, 64) on a u32
AlignDown64(a) == <<a[1] - (a[1] % 64), a[2]>>

-----------------------------------------------------------------------------
(* Block-linear geometry (layout.cpp) *)

GobWidth == 64

GobHeight == 8

DivideCeil(a, b) == (a + b - 1) \div b

AlignUp(a, b) == DivideCeil(a, b) * b

AlignDown(a, b) == a - (a % b)

IsAligned(a, b) == a % b = 0

\* a mutant: the depth is not aligned to the block depth
GetBlockLinearLayerSizeUnalignedDepth(dimensions, formatBlockWidth, formatBlockHeight, formatBpb, gobBlockHeight, gobBlockDepth) ==
    AlignUp(DivideCeil(dimensions[1], formatBlockWidth) * formatBpb, GobWidth)
    * (GobHeight * gobBlockHeight)
    * DivideCeil(DivideCeil(dimensions[2], formatBlockHeight), GobHeight * gobBlockHeight)
    * dimensions[3]

\* dimensions is <<width, height, depth>>
GetBlockLinearLayerSize(dimensions, formatBlockWidth, formatBlockHeight, formatBpb, gobBlockHeight, gobBlockDepth) ==
    LET robLineWidth       == DivideCeil(dimensions[1], formatBlockWidth)
        robLineBytes       == AlignUp(robLineWidth * formatBpb, GobWidth)
        robHeight          == GobHeight * gobBlockHeight
        surfaceHeightLines == DivideCeil(dimensions[2], formatBlockHeight)
        surfaceHeightRobs  == DivideCeil(surfaceHeightLines, robHeight)
        robDepth           == AlignUp(dimensions[3], gobBlockDepth)
    IN  robLineBytes * robHeight * surfaceHeightRobs * robDepth

RECURSIVE BitCeil(_)
\* std::bit_ceil: the least power of two not below n
BitCeil(n) == IF n <= 1 THEN 1 ELSE 2 * BitCeil((n + 1) \div 2)

\* a mutant: a block never shrinks
CalculateBlockGobsKeepingBlock(blockGobs, surfaceGobs) == blockGobs

CalculateBlockGobs(blockGobs, surfaceGobs) ==
    IF surfaceGobs > blockGobs THEN blockGobs ELSE BitCeil(surfaceGobs)

\* a mutant: halves are rounded up
HalveMin1RoundingUp(value) == (value + 1) \div 2

\* std::max(value / 2, 1)
HalveMin1(value) == IF value \div 2 > 1 THEN value \div 2 ELSE 1

RECURSIVE LevelsSize(_, _, _, _, _, _, _, _)
\* the loop of the multi-level GetBlockLinearLayerSize from level i on
LevelsSize(i, levelCount, gobsWidth, gobsHeight, gobsDepth, gobBlockHeight, gobBlockDepth, totalSize) ==
    IF i >= levelCount THEN totalSize
    ELSE LET gobsHeightNext == HalveMin1(gobsHeight)
             gobsDepthNext  == HalveMin1(gobsDepth)
         IN  LevelsSize(i + 1, levelCount, HalveMin1(gobsWidth), gobsHeightNext, gobsDepthNext,
                        CalculateBlockGobs(gobBlockHeight, gobsHeightNext),
                        CalculateBlockGobs(gobBlockDepth, gobsDepthNext),
                        totalSize + (GobWidth * gobsWidth)
                                    * (GobHeight * AlignUp(gobsHeight, gobBlockHeight))
                                    * AlignUp(gobsDepth, gobBlockDepth))

\* a mutant: the total is aligned to the layer alignment for single layers too
GetBlockLinearLayerSizeLevelsAligned(dimensions, formatBlockHeight, formatBlockWidth, formatBpb, gobBlockHeight, gobBlockDepth, levelCount, isMultiLayer) ==
    AlignUp(LevelsSize(0, levelCount,
                       DivideCeil(DivideCeil(dimensions[1], formatBlockWidth) * formatBpb, GobWidth),
                       DivideCeil(DivideCeil(dimensions[2], formatBlockHeight), GobHeight),
                       dimensions[3], gobBlockHeight, gobBlockDepth, 0),
            GobWidth * GobHeight * gobBlockHeight * gobBlockDepth)

\* GetBlockLinearLayerSize with levelCount and isMultiLayer
GetBlockLinearLayerSizeLevels(dimensions, formatBlockHeight, formatBlockWidth, formatBpb, gobBlockHeight, gobBlockDepth, levelCount, isMultiLayer) ==
    LET gobsWidth  == DivideCeil(DivideCeil(dimensions[1], formatBlockWidth) * formatBpb, GobWidth)
        gobsHeight == DivideCeil(DivideCeil(dimensions[2], formatBlockHeight), GobHeight)
        gobsDepth  == dimensions[3]
        layerAlignment == GobWidth * GobHeight * gobBlockHeight * gobBlockDepth
        totalSize  == LevelsSize(0, levelCount, gobsWidth, gobsHeight, gobsDepth,
                                 gobBlockHeight, gobBlockDepth, 0)
    IN  IF isMultiLayer THEN AlignUp(totalSize, layerAlignment) ELSE totalSize

RECURSIVE MipLevels(_, _, _, _, _, _, _, _, _)
\* the loop of GetBlockLinearMipLayout from level i on; format is
\* <<formatBlockHeight, formatBlockWidth, formatBpb>>, target likewise
MipLevels(i, levelCount, dimensions, format, target, gobsWidth, gobsHeight, gobBlockHeight, gobBlockDepth) ==
    IF i >= levelCount THEN <<>>
    ELSE LET linearSize == DivideCeil(dimensions[1], format[2]) * format[3]
                           * DivideCeil(dimensions[2], format[1]) * dimensions[3]
             targetLinearSize ==
                 IF target[3] = 0 THEN linearSize
                 ELSE DivideCeil(dimensions[1], target[2]) * target[3]
                      * DivideCeil(dimensions[2], target[1]) * dimensions[3]
             level == [dimensions       |-> dimensions,
                       linearSize       |-> linearSize,
                       targetLinearSize |-> targetLinearSize,
                       blockLinearSize  |-> (GobWidth * gobsWidth)
                                            * (GobHeight * AlignUp(gobsHeight, gobBlockHeight))
                                            * AlignUp(dimensions[3], gobBlockDepth),
                       gobBlockHeight   |-> gobBlockHeight,
                       gobBlockDepth    |-> gobBlockDepth]
             gobsHeightNext == HalveMin1(gobsHeight)
             dimensionsNext == <<HalveMin1(dimensions[1]), HalveMin1(dimensions[2]),
                                 HalveMin1(dimensions[3])>>
         IN  <<level>> \o MipLevels(i + 1, levelCount, dimensionsNext, format, target,
                                    HalveMin1(gobsWidth), gobsHeightNext,
                                    CalculateBlockGobs(gobBlockHeight, gobsHeightNext),
                                    CalculateBlockGobs(gobBlockDepth, dimensionsNext[3]))

GetBlockLinearMipLayout(dimensions, formatBlockHeight, formatBlockWidth, formatBpb, targetFormatBlockHeight, targetFormatBlockWidth, targetFormatBpb, gobBlockHeight, gobBlockDepth, levelCount) ==
    MipLevels(0, levelCount, dimensions,
              <<formatBlockHeight, formatBlockWidth, formatBpb>>,
              <<targetFormatBlockHeight, targetFormatBlockWidth, targetFormatBpb>>,
              DivideCeil(DivideCeil(dimensions[1], formatBlockWidth) * formatBpb, GobWidth),
              DivideCeil(DivideCeil(dimensions[2], formatBlockHeight), GobHeight),
              gobBlockHeight, gobBlockDepth)

-----------------------------------------------------------------------------
(* Swizzle copier (layout.cpp).  A buffer is a function from byte offsets   *)
(* 0..size-1 to byte values.  An access outside the buffer reads Junk or    *)
(* is dropped, and raises the fault flag of the result (the C++ access is   *)
(* undefined there).                                                        *)

Junk == 0

RECURSIVE BitAnd(_, _)
\* a & b
BitAnd(a, b) ==
    IF a = 0 \/ b = 0 THEN 0
    ELSE (a % 2) * (b % 2) + 2 * BitAnd(a \div 2, b \div 2)

\* struct u96 {u64 high; u32 low;} under #pragma pack(push, 0): pack(0) selects
\* the default alignment, so the struct is 16 bytes, 4 of them tail padding
\* that an assignment may or may not copy
U96CopySizes == {12, 16}

\* sizeof(FORMATBPB) as moved by one assignment; u96Bytes is the build's choice
\* for u96
ElementBytes(formatBpb, u96Bytes) == IF formatBpb = 12 THEN u96Bytes ELSE formatBpb

\* the switch over formatBpb instantiates the loop for these sizes only
DispatchedBpb == {1, 2, 4, 8, 12, 16}

\* a mutant: texels are merged up to 16 bytes whatever the row length
CoalesceUnchecked(textureWidth, textureWidthBytes, formatBpb) ==
    IF formatBpb = 12 THEN <<textureWidth, formatBpb>>
    ELSE <<textureWidth \div (16 \div formatBpb), 16>>

RECURSIVE Coalesce(_, _, _)
\* the width coalescing loop of the full-surface copier:
\* <<textureWidth, formatBpb>> after it
Coalesce(textureWidth, textureWidthBytes, formatBpb) ==
    IF formatBpb = 12 \/ formatBpb = 16 THEN <<textureWidth, formatBpb>>
    ELSE IF IsAligned(textureWidthBytes, formatBpb * 2)
         THEN Coalesce(textureWidth \div 2, textureWidthBytes, formatBpb * 2)
         ELSE <<textureWidth, formatBpb>>

RECURSIVE CoalesceSubrect(_, _, _, _)
\* the width coalescing loop of the sub-rectangle copier
CoalesceSubrect(pitchTextureWidth, pitchTextureWidthBytes, startingBlockXBytes, formatBpb) ==
    IF formatBpb = 12 \/ formatBpb = 16 THEN <<pitchTextureWidth, formatBpb>>
    ELSE IF /\ IsAligned(pitchTextureWidthBytes - startingBlockXBytes, formatBpb * 2)
            /\ IsAligned(startingBlockXBytes, formatBpb * 2)
         THEN CoalesceSubrect(pitchTextureWidth \div 2, pitchTextureWidthBytes,
                              startingBlockXBytes, formatBpb * 2)
         ELSE <<pitchTextureWidth, formatBpb>>

\* a mutant: the lines of a GOB follow each other 16 bytes apart
GobYOffsetLineByLine(line, robHeight) ==
    (BitAnd(line, robHeight - 1) \div GobHeight) * GobWidth * GobHeight + (line % 8) * 16

\* Y offset of a line inside its ROB: whole GOBs, then inside the GOB
GobYOffset(line, robHeight) ==
    (BitAnd(line, robHeight - 1) \div GobHeight) * GobWidth * GobHeight
    + ((line % 8) \div 2) * 64 + (line % 2) * 16

\* a mutant: the bytes of a GOB line follow each other
GobXOffsetFlat(xBytes) == xBytes % 64

\* X offset of a byte column inside its GOB
GobXOffset(xBytes) ==
    ((xBytes % 64) \div 32) * 256 + (xBytes % 16) + ((xBytes % 32) \div 16) * 32

RECURSIVE MoveBytes(_, _, _, _, _, _)
\* one assignment *(FORMATBPB *)to = *(FORMATBPB *)from of n bytes, byte j onwards;
\* acc is [buf, fault], the destination buffer and the fault flag
MoveBytes(acc, dstOffset, src, srcOffset, n, j) ==
    IF j = n THEN acc
    ELSE IF dstOffset + j \in DOMAIN acc.buf
    THEN MoveBytes([buf   |-> [acc.buf EXCEPT ![dstOffset + j] =
                                  IF srcOffset + j \in DOMAIN src THEN src[srcOffset + j]
                                                                  ELSE Junk],
                    fault |-> acc.fault \/ srcOffset + j \notin DOMAIN src],
                   dstOffset, src, srcOffset, n, j + 1)
    ELSE MoveBytes([acc EXCEPT !.fault = TRUE], dstOffset, src, srcOffset, n, j + 1)

\* the assignment of the inner loop, in the direction of the copy; g holds
\* the geometry and the source buffer
MoveElement(acc, g, swizzledOffset, deSwizzledOffset) ==
    IF g.blockLinearToPitch
    THEN MoveBytes(acc, deSwizzledOffset, g.src, swizzledOffset, g.elementBytes, 0)
    ELSE MoveBytes(acc, swizzledOffset, g.src, deSwizzledOffset, g.elementBytes, 0)

\* The loops below test the result of each iteration (its fault flag is a
\* Boolean) before they go on: the test is always true, and makes the
\* iteration's byte moves take place before the next iteration starts.

RECURSIVE CopyPixels(_, _, _, _, _)
\* the pixel loop of one line: pixel .. g.textureWidth - 1
CopyPixels(acc, g, swizzledYZOffset, pitchOffset, pixel) ==
    IF pixel >= g.textureWidth THEN acc
    ELSE LET xBytes         == g.originXBytes + pixel * g.formatBpb
             blockOffset    == (xBytes \div GobWidth) * g.blockSize
             swizzledOffset == swizzledYZOffset + blockOffset + GobXOffset(xBytes)
             moved == MoveElement(acc, g, swizzledOffset, pitchOffset + pixel * g.formatBpb)
         IN  IF moved.fault \in BOOLEAN
             THEN CopyPixels(moved, g, swizzledYZOffset, pitchOffset, pixel + 1)
             ELSE moved

RECURSIVE CopyLines(_, _, _, _)
\* the line loop of one slice: line .. g.textureHeight - 1; the pitch offset
\* runs on from slice to slice
CopyLines(acc, g, slice, line) ==
    IF line >= g.textureHeight THEN acc
    ELSE LET y           == g.originYOffset + line
             robOffset   == g.widthAlignedBytes * AlignDown(y, g.robHeight) * g.alignedDepth
             blockLinear == slice * (GobHeight * GobWidth * g.gobBlockHeight)
             pitchOffset == (slice * g.textureHeight + line) * g.pitchBytes
             copied == CopyPixels(acc, g, blockLinear + robOffset + GobYOffset(y, g.robHeight),
                                  pitchOffset, 0)
         IN  IF copied.fault \in BOOLEAN
             THEN CopyLines(copied, g, slice, line + 1)
             ELSE copied

RECURSIVE CopySlices(_, _, _)
\* the slice loop: slice .. g.depth - 1
CopySlices(acc, g, slice) ==
    IF slice >= g.depth THEN acc
    ELSE LET copied == CopyLines(acc, g, slice, 0)
         IN  IF copied.fault \in BOOLEAN
             THEN CopySlices(copied, g, slice + 1)
             ELSE copied

\* copyTexture, entered through the switch over the coalesced formatBpb
CopyTexture(g, dst) ==
    IF g.formatBpb \in DispatchedBpb
    THEN CopySlices([buf |-> dst, fault |-> FALSE], g, 0)
    ELSE [buf |-> dst, fault |-> FALSE]

\* the geometry CopyBlockLinearInternal computes before its loop
FullGeometry(dimensions, formatBlockWidth, formatBlockHeight, formatBpb, pitchAmount, gobBlockHeight, gobBlockDepth) ==
    LET textureWidth      == DivideCeil(dimensions[1], formatBlockWidth)
        textureWidthBytes == textureWidth * formatBpb
        coalesced         == Coalesce(textureWidth, textureWidthBytes, formatBpb)
        robHeight         == gobBlockHeight * GobHeight
        alignedDepth      == AlignUp(dimensions[3], gobBlockDepth)
    IN  [textureWidth      |-> coalesced[1],
         formatBpb         |-> coalesced[2],
         widthAlignedBytes |-> AlignUp(textureWidthBytes, GobWidth),
         textureHeight     |-> DivideCeil(dimensions[2], formatBlockHeight),
         robHeight         |-> robHeight,
         gobBlockHeight    |-> gobBlockHeight,
         alignedDepth      |-> alignedDepth,
         depth             |-> dimensions[3],
         pitchBytes        |-> IF pitchAmount # 0 THEN pitchAmount ELSE textureWidthBytes,
         blockSize         |-> robHeight * GobWidth * alignedDepth,
         originXBytes      |-> 0,
         originYOffset     |-> 0]

\* the geometry CopyBlockLinearSubrectInternal computes before its loop
SubrectGeometry(pitchDimensions, blockLinearDimensions, formatBlockWidth, formatBlockHeight, formatBpb, pitchAmount, gobBlockHeight, gobBlockDepth, originX, originY) ==
    LET pitchTextureWidth      == DivideCeil(pitchDimensions[1], formatBlockWidth)
        pitchTextureWidthBytes == pitchTextureWidth * formatBpb
        originXBytes           == DivideCeil(originX, formatBlockWidth) * formatBpb
        startingBlockXBytes    == AlignUp(originXBytes, GobWidth) - originXBytes
        coalesced              == CoalesceSubrect(pitchTextureWidth, pitchTextureWidthBytes,
                                                  startingBlockXBytes, formatBpb)
        robHeight              == gobBlockHeight * GobHeight
        alignedDepth           == AlignUp(blockLinearDimensions[3], gobBlockDepth)
    IN  [textureWidth      |-> coalesced[1],
         formatBpb         |-> coalesced[2],
         widthAlignedBytes |-> AlignUp(DivideCeil(blockLinearDimensions[1], formatBlockWidth)
                                       * formatBpb, GobWidth),
         textureHeight     |-> DivideCeil(pitchDimensions[2], formatBlockHeight),
         robHeight         |-> robHeight,
         gobBlockHeight    |-> gobBlockHeight,
         alignedDepth      |-> alignedDepth,
         depth             |-> blockLinearDimensions[3],
         pitchBytes        |-> IF pitchAmount # 0 THEN pitchAmount ELSE pitchTextureWidthBytes,
         blockSize         |-> robHeight * GobWidth * alignedDepth,
         originXBytes      |-> originXBytes,
         originYOffset     |-> DivideCeil(originY, formatBlockHeight)]

\* the copy itself: geometry g, direction, the two buffers; the result is
\* [buf, fault] for the buffer written
RunCopy(g, blockLinearToPitch, blockLinear, pitch, u96Bytes) ==
    CopyTexture([name \in DOMAIN g \cup {"blockLinearToPitch", "src", "elementBytes"} |->
                    CASE name = "blockLinearToPitch" -> blockLinearToPitch
                      [] name = "src"          -> IF blockLinearToPitch THEN blockLinear ELSE pitch
                      [] name = "elementBytes" -> ElementBytes(g.formatBpb, u96Bytes)
                      [] OTHER -> g[name]],
                IF blockLinearToPitch THEN pitch ELSE blockLinear)

\* CopyBlockLinearInternal<BlockLinearToPitch>; the result is [buf, fault] for
\* the buffer written
CopyBlockLinearInternal(blockLinearToPitch, dimensions, formatBlockWidth, formatBlockHeight, formatBpb, pitchAmount, gobBlockHeight, gobBlockDepth, blockLinear, pitch, u96Bytes) ==
    RunCopy(FullGeometry(dimensions, formatBlockWidth, formatBlockHeight, formatBpb,
                         pitchAmount, gobBlockHeight, gobBlockDepth),
            blockLinearToPitch, blockLinear, pitch, u96Bytes)

\* CopyBlockLinearSubrectInternal<BlockLinearToPitch>
CopyBlockLinearSubrectInternal(blockLinearToPitch, pitchDimensions, blockLinearDimensions, formatBlockWidth, formatBlockHeight, formatBpb, pitchAmount, gobBlockHeight, gobBlockDepth, blockLinear, pitch, originX, originY, u96Bytes) ==
    RunCopy(SubrectGeometry(pitchDimensions, blockLinearDimensions, formatBlockWidth,
                            formatBlockHeight, formatBpb, pitchAmount, gobBlockHeight,
                            gobBlockDepth, originX, originY),
            blockLinearToPitch, blockLinear, pitch, u96Bytes)

-----------------------------------------------------------------------------
(* Register file of the DMA engine.  maxwell_dma.h is not part of the       *)
(* sources at hand: the method names stand for the method indices and the  *)
(* bit fields follow the register layout of the specification.             *)

Methods ==
    {"nop", "launchDma", "offsetInUpper", "offsetInLower", "offsetOutUpper", "offsetOutLower",
     "pitchIn", "pitchOut", "lineLengthIn", "lineCount",
     "semaphoreAddressUpper", "semaphoreAddressLower", "semaphorePayload",
     "srcBlockSize", "srcWidth", "srcHeight", "srcDepth", "srcLayer", "srcOriginX", "srcOriginY",
     "dstBlockSize", "dstWidth", "dstHeight", "dstDepth", "dstLayer", "dstOriginX", "dstOriginY"}

\* ENGINE_OFFSET(launchDma)
LaunchDmaMethod == "launchDma"

Bits(word, shift, width) == (word[1] \div (2^shift)) % (2^width)

BlockLinear == 0

Pitch == 1

SemaphoreNone == 0

ReleaseOneWordSemaphore == 1

ReleaseFourWordSemaphore == 2

\* registers.launchDma: the bit fields of the launchDma word
LaunchDmaFields(r) ==
    [dataTransferType |-> Bits(r["launchDma"], 0, 2),
     multiLineEnable  |-> Bits(r["launchDma"], 2, 1) = 1,
     remapEnable      |-> Bits(r["launchDma"], 3, 1) = 1,
     srcMemoryLayout  |-> Bits(r["launchDma"], 4, 1),
     dstMemoryLayout  |-> Bits(r["launchDma"], 5, 1),
     reductionEnable  |-> Bits(r["launchDma"], 6, 1) = 1,
     semaphoreType    |-> Bits(r["launchDma"], 7, 2)]

\* the launchDma word with the given fields (inverse of LaunchDmaFields)
LaunchWord(multi, remap, src, dst, reduction, semType) ==
    U32(4 * multi + 8 * remap + 16 * src + 32 * dst + 64 * reduction + 128 * semType)

OffsetIn(r) == Join(r["offsetInUpper"], r["offsetInLower"])

OffsetOut(r) == Join(r["offsetOutUpper"], r["offsetOutLower"])

SemaphoreAddress(r) == Join(r["semaphoreAddressUpper"], r["semaphoreAddressLower"])

\* registers.srcSurface / registers.dstSurface; side is "src" or "dst"
Surface(r, side) ==
    [blockWidth  |-> 2^Bits(r[side \o "BlockSize"], 0, 4),
     blockHeight |-> 2^Bits(r[side \o "BlockSize"], 4, 4),
     blockDepth  |-> 2^Bits(r[side \o "BlockSize"], 8, 4),
     width   |-> r[side \o "Width"],
     height  |-> r[side \o "Height"],
     depth   |-> r[side \o "Depth"],
     layer   |-> r[side \o "Layer"],
     originX |-> r[side \o "OriginX"],
     originY |-> r[side \o "OriginY"]]

-----------------------------------------------------------------------------
(* The engine's handlers (maxwell_dma.cpp).  A handler takes and returns    *)
(* the machine state m = [regs, trace, gpuTime]; every call on a            *)
(* collaborator (executor, interconnect, GMMU, swizzle copier, warning      *)
(* log) is appended to m.trace in program order.                            *)

Emit(m, event) == [m EXCEPT !.trace = Append(@, event)]

Warn(m, what) == Emit(m, [op |-> "Log", level |-> "Warn", what |-> what])

\* gmmu.TranslateRange(address, size): the number of host spans it returns
TranslateRange(address) == mmu[address]

\* a mutant: the timestamp is stored after the payload
ReleaseSemaphorePayloadFirst(m) ==
    LET l       == LaunchDmaFields(m.regs)
        m0      == Emit(m, [op |-> "ReleaseSemaphore"])
        address == SemaphoreAddress(m.regs)
        payload == Ext(m.regs["semaphorePayload"])
    IN  IF l.semaphoreType = ReleaseFourWordSemaphore
        THEN LET m1 == Emit(m0, [op |-> "GetGpuTimeTicks", value |-> U64(m.gpuTime)])
                 m2 == Emit(m1, [op |-> "Write", address |-> address, value |-> payload])
                 m3 == Emit(m2, [op |-> "Write", address |-> Add(address, U64(8)),
                                 value |-> U64(m.gpuTime)])
             IN  [m3 EXCEPT !.gpuTime = @ + 1]
        ELSE IF l.semaphoreType = ReleaseOneWordSemaphore
        THEN Emit(m0, [op |-> "Write", address |-> address, value |-> payload])
        ELSE m0

\* a mutant: every semaphore type but None writes the payload
ReleaseSemaphoreWritesByDefault(m) ==
    LET m0 == Emit(m, [op |-> "ReleaseSemaphore"])
    IN  IF LaunchDmaFields(m.regs).semaphoreType = SemaphoreNone THEN m0
        ELSE Emit(m0, [op |-> "Write", address |-> SemaphoreAddress(m.regs),
                       value |-> Ext(m.regs["semaphorePayload"])])

\* a mutant: a release with reductionEnable set is not performed
ReleaseSemaphoreDroppingReduction(m) ==
    LET l       == LaunchDmaFields(m.regs)
        m0      == Emit(m, [op |-> "ReleaseSemaphore"])
        address == SemaphoreAddress(m.regs)
        payload == Ext(m.regs["semaphorePayload"])
    IN  IF l.reductionEnable THEN Warn(m0, "reduction")
        ELSE CASE l.semaphoreType = ReleaseOneWordSemaphore ->
                    Emit(m0, [op |-> "Write", address |-> address, value |-> payload])
               [] l.semaphoreType = ReleaseFourWordSemaphore ->
                    LET timestamp == U64(m.gpuTime)
                        m2 == Emit(m0, [op |-> "GetGpuTimeTicks", value |-> timestamp])
                        m3 == Emit(m2, [op |-> "Write", address |-> Add(address, U64(8)),
                                        value |-> timestamp])
                        m4 == Emit(m3, [op |-> "Write", address |-> address, value |-> payload])
                    IN  [m4 EXCEPT !.gpuTime = @ + 1]
               [] OTHER -> m0

ReleaseSemaphore(m) ==
    LET l       == LaunchDmaFields(m.regs)
        m0      == Emit(m, [op |-> "ReleaseSemaphore"])
        m1      == IF l.reductionEnable THEN Warn(m0, "reduction") ELSE m0
        address == SemaphoreAddress(m.regs)
        payload == Ext(m.regs["semaphorePayload"])
    IN  CASE l.semaphoreType = ReleaseOneWordSemaphore ->
               Emit(m1, [op |-> "Write", address |-> address, value |-> payload])
          [] l.semaphoreType = ReleaseFourWordSemaphore ->
               \* Write timestamp first to ensure correct ordering
               LET timestamp == U64(m.gpuTime)
                   m2 == Emit(m1, [op |-> "GetGpuTimeTicks", value |-> timestamp])
                   m3 == Emit(m2, [op |-> "Write", address |-> Add(address, U64(8)),
                                   value |-> timestamp])
                   m4 == Emit(m3, [op |-> "Write", address |-> address, value |-> payload])
               IN  [m4 EXCEPT !.gpuTime = @ + 1]
          [] OTHER -> m1

\* the u32 dimensions of a surface as naturals, for the size_t layout arithmetic
NatDimensions(dimensions) == <<ToNat(dimensions[1]), ToNat(dimensions[2]), ToNat(dimensions[3])>>

\* a mutant: the copy goes ahead whatever the translations returned
CopyBlockLinearToPitchIgnoringSplit(m) ==
    LET r  == m.regs
        m1 == Emit(m, [op |-> "TranslateRange", address |-> OffsetIn(r), size |-> U64(0)])
        m2 == Emit(m1, [op |-> "TranslateRange", address |-> OffsetOut(r), size |-> U64(0)])
    IN  Emit(m2, [op |-> "CopyBlockLinearToPitch", blockLinear |-> OffsetIn(r),
                  pitch |-> OffsetOut(r)])

CopyBlockLinearToPitch(m) ==
    LET r    == m.regs
        surf == Surface(r, "src")
        srcDimensions   == <<surf.width, surf.height, surf.depth>>
        srcLayerStride  == U64(GetBlockLinearLayerSize(NatDimensions(srcDimensions), 1, 1, 1,
                                                       surf.blockHeight, surf.blockDepth))
        m1 == Emit(m, [op |-> "TranslateRange", address |-> OffsetIn(r), size |-> srcLayerStride])
        dstDimensions   == <<r["lineLengthIn"], r["lineCount"], surf.depth>>
        \* u32 dstSize{pitchOut * height * depth}
        dstSize         == MulU32(MulU32(r["pitchOut"], dstDimensions[2]), dstDimensions[3])
        m2 == Emit(m1, [op |-> "TranslateRange", address |-> OffsetOut(r), size |-> Ext(dstSize)])
    IN  IF surf.blockWidth # 1
        THEN Emit(m, [op |-> "Log", level |-> "Error", what |-> "block width"])
        ELSE IF TranslateRange(OffsetIn(r)) # 1 \/ TranslateRange(OffsetOut(r)) # 1
        THEN Warn(m2, "split")
        ELSE IF \/ AlignDown64(srcDimensions[1]) # AlignDown64(dstDimensions[1])
                \/ ~IsZero(surf.originX)
                \/ ~IsZero(surf.originY)
        THEN Emit(m2, [op |-> "CopyBlockLinearToPitchSubrect",
                       pitchDimensions |-> dstDimensions,
                       blockLinearDimensions |-> srcDimensions,
                       pitchAmount |-> r["pitchOut"],
                       gobBlockHeight |-> surf.blockHeight, gobBlockDepth |-> surf.blockDepth,
                       blockLinear |-> OffsetIn(r), pitch |-> OffsetOut(r),
                       originX |-> surf.originX, originY |-> surf.originY])
        ELSE Emit(m2, [op |-> "CopyBlockLinearToPitch",
                       dimensions |-> dstDimensions,
                       pitchAmount |-> r["pitchOut"],
                       gobBlockHeight |-> surf.blockHeight, gobBlockDepth |-> surf.blockDepth,
                       blockLinear |-> OffsetIn(r), pitch |-> OffsetOut(r)])

\* a mutant: the origin of the surface does not count in the choice of copier
CopyPitchToBlockLinearByWidthOnly(m) ==
    LET r    == m.regs
        surf == Surface(r, "dst")
        srcDimensions   == <<r["lineLengthIn"], r["lineCount"], surf.depth>>
        srcSize         == MulU32(MulU32(r["pitchIn"], srcDimensions[2]), srcDimensions[3])
        m1 == Emit(m, [op |-> "TranslateRange", address |-> OffsetIn(r), size |-> Ext(srcSize)])
        dstDimensions   == <<surf.width, surf.height, surf.depth>>
        dstLayerStride  == U64(GetBlockLinearLayerSize(NatDimensions(dstDimensions), 1, 1, 1,
                                                       surf.blockHeight, surf.blockDepth))
        m2 == Emit(m1, [op |-> "TranslateRange", address |-> OffsetOut(r), size |-> dstLayerStride])
    IN  IF surf.blockWidth # 1
        THEN Emit(m, [op |-> "Log", level |-> "Error", what |-> "block width"])
        ELSE IF TranslateRange(OffsetIn(r)) # 1 \/ TranslateRange(OffsetOut(r)) # 1
        THEN Warn(m2, "split")
        ELSE IF AlignDown64(srcDimensions[1]) # AlignDown64(dstDimensions[1])
        THEN Emit(m2, [op |-> "CopyPitchToBlockLinearSubrect",
                       pitchDimensions |-> srcDimensions,
                       blockLinearDimensions |-> dstDimensions,
                       pitchAmount |-> r["pitchIn"],
                       gobBlockHeight |-> surf.blockHeight, gobBlockDepth |-> surf.blockDepth,
                       blockLinear |-> OffsetOut(r), pitch |-> OffsetIn(r),
                       originX |-> surf.originX, originY |-> surf.originY])
        ELSE Emit(m2, [op |-> "CopyPitchToBlockLinear",
                       dimensions |-> srcDimensions,
                       pitchAmount |-> r["pitchIn"],
                       gobBlockHeight |-> surf.blockHeight, gobBlockDepth |-> surf.blockDepth,
                       blockLinear |-> OffsetOut(r), pitch |-> OffsetIn(r)])

CopyPitchToBlockLinear(m) ==
    LET r    == m.regs
        surf == Surface(r, "dst")
        srcDimensions   == <<r["lineLengthIn"], r["lineCount"], surf.depth>>
        \* u32 srcSize{pitchIn * height * depth}
        srcSize         == MulU32(MulU32(r["pitchIn"], srcDimensions[2]), srcDimensions[3])
        m1 == Emit(m, [op |-> "TranslateRange", address |-> OffsetIn(r), size |-> Ext(srcSize)])
        dstDimensions   == <<surf.width, surf.height, surf.depth>>
        dstLayerStride  == U64(GetBlockLinearLayerSize(NatDimensions(dstDimensions), 1, 1, 1,
                                                       surf.blockHeight, surf.blockDepth))
        m2 == Emit(m1, [op |-> "TranslateRange", address |-> OffsetOut(r), size |-> dstLayerStride])
    IN  IF surf.blockWidth # 1
        THEN Emit(m, [op |-> "Log", level |-> "Error", what |-> "block width"])
        ELSE IF TranslateRange(OffsetIn(r)) # 1 \/ TranslateRange(OffsetOut(r)) # 1
        THEN Warn(m2, "split")
        ELSE IF \/ AlignDown64(srcDimensions[1]) # AlignDown64(dstDimensions[1])
                \/ ~IsZero(surf.originX)
                \/ ~IsZero(surf.originY)
        THEN Emit(m2, [op |-> "CopyPitchToBlockLinearSubrect",
                       pitchDimensions |-> srcDimensions,
                       blockLinearDimensions |-> dstDimensions,
                       pitchAmount |-> r["pitchIn"],
                       gobBlockHeight |-> surf.blockHeight, gobBlockDepth |-> surf.blockDepth,
                       blockLinear |-> OffsetOut(r), pitch |-> OffsetIn(r),
                       originX |-> surf.originX, originY |-> surf.originY])
        ELSE Emit(m2, [op |-> "CopyPitchToBlockLinear",
                       dimensions |-> srcDimensions,
                       pitchAmount |-> r["pitchIn"],
                       gobBlockHeight |-> surf.blockHeight, gobBlockDepth |-> surf.blockDepth,
                       blockLinear |-> OffsetOut(r), pitch |-> OffsetIn(r)])

RECURSIVE CopyRows(_, _, _, _)
\* the row loop of the pitch to pitch copy; the two offsets are u32
CopyRows(m, linesToCopy, srcCopyOffset, dstCopyOffset) ==
    IF linesToCopy = 0 THEN m
    ELSE CopyRows(Emit(m, [op |-> "Copy",
                           dst  |-> Add(OffsetOut(m.regs), Ext(dstCopyOffset)),
                           src  |-> Add(OffsetIn(m.regs), Ext(srcCopyOffset)),
                           size |-> Ext(m.regs["lineLengthIn"])]),
                  linesToCopy - 1,
                  Add(srcCopyOffset, m.regs["pitchIn"]),
                  Add(dstCopyOffset, m.regs["pitchOut"]))

\* a mutant: every launch is one copy of lineLengthIn * lineCount bytes
DmaCopyWholeSurface(m) ==
    Emit(m, [op |-> "Copy", dst |-> OffsetOut(m.regs), src |-> OffsetIn(m.regs),
             size |-> Ext(MulU32(m.regs["lineLengthIn"], m.regs["lineCount"]))])

\* a mutant: the executor is flushed after the copy
DmaCopySubmitAfterCopy(m) ==
    LET copied == Emit(m, [op |-> "Copy", dst |-> OffsetOut(m.regs), src |-> OffsetIn(m.regs),
                           size |-> Ext(m.regs["lineLengthIn"])])
    IN  IF LaunchDmaFields(m.regs).multiLineEnable THEN Emit(copied, [op |-> "Submit"])
        ELSE copied

DmaCopy(m) ==
    LET r == m.regs
        l == LaunchDmaFields(r)
    IN  IF l.multiLineEnable
        THEN LET m1 == Emit(m, [op |-> "Submit"])
             IN  IF l.srcMemoryLayout = l.dstMemoryLayout
                 THEN IF l.srcMemoryLayout = Pitch
                      THEN IF r["pitchIn"] = r["pitchOut"] /\ r["pitchIn"] = r["lineLengthIn"]
                           THEN Emit(m1, [op |-> "Copy", dst |-> OffsetOut(r), src |-> OffsetIn(r),
                                          size |-> Ext(MulU32(r["lineLengthIn"], r["lineCount"]))])
                           ELSE CopyRows(m1, ToNat(r["lineCount"]), U32(0), U32(0))
                      ELSE Warn(m1, "blocklinear to blocklinear")
                 ELSE IF l.srcMemoryLayout = BlockLinear
                      THEN CopyBlockLinearToPitch(m1)
                      ELSE CopyPitchToBlockLinear(m1)
        ELSE Emit(m, [op |-> "Copy", dst |-> OffsetOut(r), src |-> OffsetIn(r),
                      size |-> Ext(r["lineLengthIn"])])

\* a mutant: a launch that skips the copy also skips the release
LaunchDmaNoReleaseOnRemap(m) ==
    IF LaunchDmaFields(m.regs).remapEnable
    THEN Warn(Emit(m, [op |-> "LaunchDma"]), "remap")
    ELSE ReleaseSemaphore(DmaCopy(Emit(m, [op |-> "LaunchDma"])))

\* a mutant: remapEnable is ignored
LaunchDmaIgnoringRemap(m) == ReleaseSemaphore(DmaCopy(Emit(m, [op |-> "LaunchDma"])))

\* a mutant: the launch clears its trigger word
LaunchDmaClearingWord(m) ==
    LET done == ReleaseSemaphore(IF LaunchDmaFields(m.regs).remapEnable
                                 THEN Warn(Emit(m, [op |-> "LaunchDma"]), "remap")
                                 ELSE DmaCopy(Emit(m, [op |-> "LaunchDma"])))
    IN  [done EXCEPT !.regs["launchDma"] = U32(0)]

LaunchDma(m) ==
    LET m0 == Emit(m, [op |-> "LaunchDma"])
    IN  ReleaseSemaphore(IF LaunchDmaFields(m.regs).remapEnable
                         THEN Warn(m0, "remap")
                         ELSE DmaCopy(m0))

\* a mutant: a write to the nop method launches too
HandleMethodLaunchOnNop(m, method, argument) ==
    LET m1 == Emit([m EXCEPT !.regs[method] = argument],
                   [op |-> "Store", method |-> method, value |-> argument])
    IN  IF method \in {LaunchDmaMethod, "nop"} THEN LaunchDma(m1) ELSE m1

HandleMethod(m, method, argument) ==
    LET m1 == Emit([m EXCEPT !.regs[method] = argument],
                   [op |-> "Store", method |-> method, value |-> argument])
    IN  IF method = LaunchDmaMethod THEN LaunchDma(m1) ELSE m1

RECURSIVE HandleBatchLastOnly(_, _, _, _)
\* a mutant: all words are stored, only the last one is handled as a method write
HandleBatchLastOnly(m, method, arguments, i) ==
    IF i > Len(arguments) THEN m
    ELSE IF i = Len(arguments) THEN HandleMethod(m, method, arguments[i])
    ELSE HandleBatchLastOnly(Emit([m EXCEPT !.regs[method] = arguments[i]],
                                  [op |-> "Store", method |-> method, value |-> arguments[i]]),
                             method, arguments, i + 1)

RECURSIVE HandleBatch(_, _, _, _)
\* the loop of CallMethodBatchNonInc over arguments[i..]
HandleBatch(m, method, arguments, i) ==
    IF i > Len(arguments) THEN m
    ELSE HandleBatch(HandleMethod(m, method, arguments[i]), method, arguments, i + 1)

-----------------------------------------------------------------------------
(* The command processor driving one engine instance.  The register file   *)
(* starts as an earlier command stream left it (InitRegisters: register     *)
(* files that method writes produce from the zeroed file); every step is    *)
(* one entry-point call with its method and arguments drawn from small sets.*)

\* entry-point calls per behaviour
MaxCalls == 1

\* longest argument span handed to CallMethodBatchNonInc
MaxBatch == 2

Big == <<0, 2^15>>          \* 0x80000000

AllOnes == <<Limb - 1, Limb - 1>>  \* 0xFFFFFFFF

OffsetUppers == {U32(0), U32(1)}

OffsetLowers == {U32(0), U32(4096)}

GpuAddrs == {Join(h, l) : h \in OffsetUppers, l \in OffsetLowers}

\* launch words: every copy path with a four-word release, the main paths with
\* every other semaphoreType, and two with reductionEnable
LaunchWords ==
    {LaunchWord(multi, remap, src, dst, 0, ReleaseFourWordSemaphore) :
        multi \in {0, 1}, remap \in {0, 1}, src \in {0, 1}, dst \in {0, 1}}
    \cup {LaunchWord(p[1], p[2], p[3], p[4], 0, t) :
            p \in {<<0, 0, 0, 0>>, <<1, 0, 1, 1>>, <<1, 0, 1, 0>>, <<1, 1, 0, 1>>},
            t \in {SemaphoreNone, ReleaseOneWordSemaphore, 3}}
    \cup {LaunchWord(1, 0, 1, 1, 1, ReleaseOneWordSemaphore),
          LaunchWord(0, 0, 0, 1, 1, SemaphoreNone)}

\* the arguments written to each method
ArgsOf(method) ==
    CASE method = "launchDma" -> LaunchWords
      [] method \in {"offsetInUpper", "offsetOutUpper"} -> OffsetUppers
      [] method \in {"offsetInLower", "offsetOutLower"} -> OffsetLowers
      [] method \in {"pitchIn", "pitchOut", "lineLengthIn"} -> {U32(64), Big}
      [] method = "lineCount" -> {U32(0), U32(3)}
      [] method \in {"semaphoreAddressUpper"} -> {U32(2)}
      [] method \in {"semaphoreAddressLower"} -> {U32(256)}
      [] method = "semaphorePayload" -> {AllOnes}
      [] method \in {"srcBlockSize", "dstBlockSize"} -> {U32(1), U32(16)}
      [] method \in {"srcWidth", "dstWidth"} -> {U32(100)}
      [] method \in {"srcHeight", "dstHeight"} -> {U32(16)}
      [] method \in {"srcDepth", "dstDepth"} -> {U32(2)}
      [] method \in {"srcLayer", "dstLayer"} -> {U32(1)}
      [] method \in {"srcOriginX", "dstOriginX", "srcOriginY", "dstOriginY"} -> {U32(0), U32(8)}
      [] OTHER -> {U32(5)}

ZeroRegisters == [method \in Methods |-> U32(0)]

\* the zeroed register file with the words of `written` stored
Programmed(written) ==
    [method \in Methods |-> IF method \in DOMAIN written THEN written[method] ELSE U32(0)]

InitRegisters ==
    {ZeroRegisters,
     \* pitch to pitch, 1024 bytes x 10 lines, four-word semaphore armed
     Programmed([pitchIn |-> U32(1024), pitchOut |-> U32(1024), lineLengthIn |-> U32(1024),
                 lineCount |-> U32(10), offsetInLower |-> U32(4096), offsetOutUpper |-> U32(1),
                 semaphoreAddressLower |-> U32(512), semaphorePayload |-> U32(7),
                 srcWidth |-> U32(64), srcHeight |-> U32(8), srcDepth |-> U32(1),
                 dstWidth |-> U32(1024), dstHeight |-> U32(16), dstDepth |-> U32(1)]),
     \* large pitch and line length
     Programmed([pitchIn |-> Big, pitchOut |-> Big, lineLengthIn |-> Big,
                 lineCount |-> U32(4), offsetOutLower |-> U32(4096),
                 semaphoreAddressUpper |-> U32(1), semaphorePayload |-> AllOnes,
                 srcWidth |-> U32(64), srcHeight |-> U32(8), srcDepth |-> U32(1),
                 dstWidth |-> U32(64), dstHeight |-> U32(8), dstDepth |-> U32(1)]),
     \* a 16 x 16 window of a 256 x 256 block-linear surface at origin (48, 32)
     Programmed([pitchIn |-> U32(16), pitchOut |-> U32(32), lineLengthIn |-> U32(16),
                 lineCount |-> U32(16), offsetInLower |-> U32(4096),
                 semaphoreAddressLower |-> U32(512), semaphorePayload |-> U32(1),
                 srcWidth |-> U32(256), srcHeight |-> U32(256), srcDepth |-> U32(1),
                 srcOriginX |-> U32(48), srcOriginY |-> U32(32), srcBlockSize |-> U32(32),
                 dstWidth |-> U32(256), dstHeight |-> U32(256), dstDepth |-> U32(1),
                 dstOriginX |-> U32(48), dstOriginY |-> U32(32), dstBlockSize |-> U32(32)]),
     \* rows 0x80000000 bytes apart in the source, 64 bytes apart in the destination
     Programmed([pitchIn |-> Big, pitchOut |-> U32(64), lineLengthIn |-> U32(64),
                 lineCount |-> U32(4), offsetInLower |-> U32(4096), offsetOutUpper |-> U32(1),
                 semaphoreAddressLower |-> <<Limb - 8, Limb - 1>>, semaphoreAddressUpper |-> U32(1),
                 semaphorePayload |-> U32(9),
                 srcWidth |-> U32(64), srcHeight |-> U32(4), srcDepth |-> U32(1),
                 dstWidth |-> U32(64), dstHeight |-> U32(4), dstDepth |-> U32(1)]),
     \* no lines, unequal pitches, surfaces with block width 2
     Programmed([pitchIn |-> U32(64), pitchOut |-> U32(128), lineLengthIn |-> U32(32),
                 offsetOutLower |-> U32(4096), semaphorePayload |-> U32(3),
                 srcBlockSize |-> U32(1), dstBlockSize |-> U32(1),
                 srcWidth |-> U32(32), srcHeight |-> U32(8), srcDepth |-> U32(1),
                 dstWidth |-> U32(32), dstHeight |-> U32(8), dstDepth |-> U32(1)]),
     \* 64 x 16 bytes of layer 1 of a block-linear surface 100 bytes wide
     Programmed([pitchIn |-> U32(64), pitchOut |-> U32(64), lineLengthIn |-> U32(64),
                 lineCount |-> U32(16), offsetInLower |-> U32(4096), offsetOutUpper |-> U32(1),
                 semaphoreAddressLower |-> U32(512), semaphorePayload |-> U32(5),
                 srcWidth |-> U32(100), srcHeight |-> U32(16), srcDepth |-> U32(1),
                 srcLayer |-> U32(1),
                 dstWidth |-> U32(100), dstHeight |-> U32(16), dstDepth |-> U32(1),
                 dstLayer |-> U32(1)]),
     \* a 64 x 8 surface copied whole but for an origin 8 bytes to the right
     Programmed([pitchIn |-> U32(64), pitchOut |-> U32(64), lineLengthIn |-> U32(64),
                 lineCount |-> U32(8), offsetInLower |-> U32(4096), offsetOutUpper |-> U32(1),
                 semaphorePayload |-> U32(6),
                 srcWidth |-> U32(64), srcHeight |-> U32(8), srcDepth |-> U32(1),
                 srcOriginX |-> U32(8),
                 dstWidth |-> U32(64), dstHeight |-> U32(8), dstDepth |-> U32(1),
                 dstOriginX |-> U32(8)]),
     \* the same with an origin 8 lines down
     Programmed([pitchIn |-> U32(64), pitchOut |-> U32(64), lineLengthIn |-> U32(64),
                 lineCount |-> U32(8), offsetInLower |-> U32(4096), offsetOutUpper |-> U32(1),
                 semaphorePayload |-> U32(6),
                 srcWidth |-> U32(64), srcHeight |-> U32(8), srcDepth |-> U32(1),
                 srcOriginY |-> U32(8),
                 dstWidth |-> U32(64), dstHeight |-> U32(8), dstDepth |-> U32(1),
                 dstOriginY |-> U32(8)])}

\* GMMU views: everything mapped in one span, one range split, one range unmapped
MmuStates ==
    {[a \in GpuAddrs |-> 1],
     [a \in GpuAddrs |-> IF a = Join(U32(0), U32(4096)) THEN 2 ELSE 1],
     [a \in GpuAddrs |-> IF a = Join(U32(0), U32(0)) THEN 0 ELSE 1]}

NoCopy == [dir |-> "none"]

InitDma ==
    /\ regs \in InitRegisters
    /\ trace = <<>>
    /\ lastCall = [kind |-> "none", method |-> "nop", arguments |-> <<>>]
    /\ gpuTime = 1000
    /\ mmu \in MmuStates
    /\ calls = 0

Init ==
    /\ InitDma
    /\ cp = NoCopy
    /\ pitchBuf = <<>>
    /\ blBuf = <<>>
    /\ phase = "idle"

\* the result of an entry-point call becomes the new state
Entered(m, kind, method, arguments) ==
    /\ regs' = m.regs
    /\ trace' = m.trace
    /\ gpuTime' = m.gpuTime
    /\ lastCall' = [kind |-> kind, method |-> method, arguments |-> arguments]
    /\ calls' = calls + 1
    /\ UNCHANGED <<mmu, copyVars>>

Machine == [regs |-> regs, trace |-> <<>>, gpuTime |-> gpuTime]

CallMethod ==
    /\ calls < MaxCalls
    /\ \E method \in Methods : \E argument \in ArgsOf(method) :
          Entered(HandleMethod(Machine, method, argument), "CallMethod", method, <<argument>>)

\* the argument spans of a batch: up to MaxBatch words
BatchArguments(method) ==
    LET words == IF method = LaunchDmaMethod
                 THEN {LaunchWord(1, 0, 1, 1, 0, ReleaseFourWordSemaphore),
                       LaunchWord(0, 0, 0, 0, 0, ReleaseOneWordSemaphore),
                       LaunchWord(1, 1, 0, 1, 0, SemaphoreNone)}
                 ELSE ArgsOf(method)
    IN  UNION {[1..n -> words] : n \in 0..MaxBatch}

CallMethodBatchNonInc ==
    /\ calls < MaxCalls
    /\ \E method \in {LaunchDmaMethod, "pitchIn", "nop"} :
       \E arguments \in BatchArguments(method) :
          Entered(HandleBatch(Machine, method, arguments, 1),
                  "CallMethodBatchNonInc", method, arguments)

Next == CallMethod \/ CallMethodBatchNonInc

Spec == Init /\ [][Next]_vars

-----------------------------------------------------------------------------
(* Properties of the DMA engine, read off the collaborator calls of the     *)
(* last entry-point call.  A launch is the stretch of the trace from a      *)
(* store to the launchDma method up to the next store.  Within one call     *)
(* only the method written changes, so every other register has in regs the *)
(* value the launch saw.                                                    *)

CopyOps ==
    {"Submit", "Copy", "TranslateRange", "CopyBlockLinearToPitch", "CopyBlockLinearToPitchSubrect",
     "CopyPitchToBlockLinear", "CopyPitchToBlockLinearSubrect"}

IsStore(e) == e.op = "Store"

\* positions of the stores to launchDma
Launches == {i \in DOMAIN trace : IsStore(trace[i]) /\ trace[i].method = LaunchDmaMethod}

\* the events between the store at i and the next store
Segment(i) ==
    LET later == {j \in (i + 1)..Len(trace) : IsStore(trace[j])}
        end   == IF later = {} THEN Len(trace) + 1
                 ELSE CHOOSE j \in later : \A k \in later : j <= k
    IN  SubSeq(trace, i + 1, end - 1)

\* the events of seg with an op in ops, in order
Only(seg, ops) == SelectSeq(seg, LAMBDA e : e.op \in ops)

\* the fields of the launch word stored at i
FieldsAt(i) == LaunchDmaFields([launchDma |-> trace[i].value])

IsLogged(seg, what) == \E k \in DOMAIN seg : seg[k].op = "Log" /\ seg[k].what = what

\* C1: every store to launchDma is followed by exactly one semaphore release,
\* which comes after every copy operation of that launch, on every path; no
\* release happens outside a launch.
C1_ReleaseOnceAfterCopies ==
    /\ \A i \in Launches :
          LET seg      == Segment(i)
              releases == {k \in DOMAIN seg : seg[k].op = "ReleaseSemaphore"}
          IN  /\ Cardinality(releases) = 1
              /\ \A k \in releases : \A c \in DOMAIN seg : seg[c].op \in CopyOps => c < k
    /\ Len(Only(trace, {"ReleaseSemaphore"})) = Cardinality(Launches)

\* a launch that bailed out on a split mapping after both translations, and
\* released its semaphore
C1_Witness ==
    \E i \in Launches :
        /\ IsLogged(Segment(i), "split")
        /\ Len(Only(Segment(i), {"TranslateRange"})) = 2
        /\ Len(Only(Segment(i), {"ReleaseSemaphore"})) = 1

\* C2: a launch with semaphoreType ReleaseFourWordSemaphore makes exactly two
\* MMU writes: the GPU timestamp to address + 8 first, the payload to address
\* second.
C2_FourWordTimestampFirst ==
    \A i \in Launches :
        FieldsAt(i).semaphoreType = ReleaseFourWordSemaphore =>
            LET writes == Only(Segment(i), {"Write"})
                ticks  == Only(Segment(i), {"GetGpuTimeTicks"})
            IN  /\ Len(ticks) = 1
                /\ writes = <<[op |-> "Write", address |-> Add(SemaphoreAddress(regs), U64(8)),
                               value |-> ticks[1].value],
                              [op |-> "Write", address |-> SemaphoreAddress(regs),
                               value |-> Ext(regs["semaphorePayload"])]>>

\* a four-word release at 0x1FFFFFFF8: the timestamp goes to 0x200000000
C2_Witness ==
    \E i \in Launches :
        /\ FieldsAt(i).semaphoreType = ReleaseFourWordSemaphore
        /\ SemaphoreAddress(regs) = Join(U32(1), <<Limb - 8, Limb - 1>>)
        /\ LET writes == Only(Segment(i), {"Write"})
           IN  /\ Len(writes) = 2
               /\ writes[1].address = Join(U32(2), U32(0))
               /\ writes[1].value = U64(1000)
               /\ writes[2].value = U64(9)

\* C6: callMethod(method, argument) stores argument in register word method
\* and changes no other word; the launch handler runs (once) iff method is
\* launchDma; a write to another method copies nothing, submits nothing and
\* writes nothing through the MMU.
C6_CallMethodStoresAndLaunches ==
    [][lastCall'.kind = "CallMethod" =>
          LET method   == lastCall'.method
              argument == lastCall'.arguments[1]
          IN  /\ regs' = [regs EXCEPT ![method] = argument]
              /\ Len(Only(trace', {"LaunchDma"})) = IF method = LaunchDmaMethod THEN 1 ELSE 0
              /\ method # LaunchDmaMethod =>
                    Only(trace', CopyOps \cup {"Write", "ReleaseSemaphore"}) = <<>>]_vars

\* lineCount rewritten from 10 to 3 and nothing else done
C6_Witness ==
    /\ lastCall.kind = "CallMethod"
    /\ lastCall.method = "lineCount"
    /\ lastCall.arguments = <<U32(3)>>
    /\ regs = [Programmed([pitchIn |-> U32(1024), pitchOut |-> U32(1024),
                           lineLengthIn |-> U32(1024),
                           lineCount |-> U32(10), offsetInLower |-> U32(4096),
                           offsetOutUpper |-> U32(1),
                           semaphoreAddressLower |-> U32(512), semaphorePayload |-> U32(7),
                           srcWidth |-> U32(64), srcHeight |-> U32(8), srcDepth |-> U32(1),
                           dstWidth |-> U32(1024), dstHeight |-> U32(16), dstDepth |-> U32(1)])
               EXCEPT !["lineCount"] = U32(3)]
    /\ trace = <<[op |-> "Store", method |-> "lineCount", value |-> U32(3)]>>

\* what the launch at i shows of its launch word: the remap warning, the
\* Submit of a multi-line copy, the MMU writes of its semaphore type
DecodesOwnWord(i) ==
    LET seg == Segment(i)
        l   == FieldsAt(i)
    IN  /\ Len(seg) > 0 /\ seg[1].op = "LaunchDma"
        /\ Len(Only(seg, {"LaunchDma"})) = 1
        /\ Len(Only(seg, {"ReleaseSemaphore"})) = 1
        /\ IsLogged(seg, "remap") <=> l.remapEnable
        /\ IsLogged(seg, "reduction") <=> l.reductionEnable
        /\ Len(Only(seg, {"Submit"})) = IF l.multiLineEnable /\ ~l.remapEnable THEN 1 ELSE 0
        /\ Len(Only(seg, {"Write"})) =
              CASE l.semaphoreType = ReleaseOneWordSemaphore  -> 1
                [] l.semaphoreType = ReleaseFourWordSemaphore -> 2
                [] OTHER -> 0

\* C7: callMethodBatchNonInc(method, <<a1..an>>) acts as callMethod(method, a1);
\* ...; callMethod(method, an): the words are stored to the one register in
\* order, the register ends as an, and for launchDma the i-th store is
\* followed by one whole launch decoded from ai, release included, before
\* the next word is stored.
C7_BatchIsSequenceOfCalls ==
    [][lastCall'.kind = "CallMethodBatchNonInc" =>
          LET method    == lastCall'.method
              arguments == lastCall'.arguments
              n         == Len(arguments)
              stores    == {i \in DOMAIN trace' : IsStore(trace'[i])}
          IN  /\ Only(trace', {"Store"}) =
                    [i \in 1..n |-> [op |-> "Store", method |-> method, value |-> arguments[i]]]
              /\ regs' = IF n = 0 THEN regs ELSE [regs EXCEPT ![method] = arguments[n]]
              /\ Len(trace') > 0 => IsStore(trace'[1])
              /\ gpuTime' >= gpuTime
              /\ IF method = LaunchDmaMethod
                 THEN (\A i \in stores : DecodesOwnWord(i)')
                 ELSE Len(trace') = n]_vars

\* a batch of two different launch words: a remapped launch without
\* semaphore, then a pitch to pitch copy with a four-word release
C7_Witness ==
    /\ lastCall.kind = "CallMethodBatchNonInc"
    /\ lastCall.method = LaunchDmaMethod
    /\ lastCall.arguments = <<LaunchWord(1, 1, 0, 1, 0, SemaphoreNone),
                              LaunchWord(1, 0, 1, 1, 0, ReleaseFourWordSemaphore)>>
    /\ Len(Only(trace, {"LaunchDma"})) = 2
    /\ Len(Only(trace, {"Write"})) = 2
    /\ trace[Len(trace)].op = "Write"

\* the launch at i is a multi-line pitch to pitch copy without remap
IsPitchToPitch(i) ==
    /\ ~FieldsAt(i).remapEnable
    /\ FieldsAt(i).multiLineEnable
    /\ FieldsAt(i).srcMemoryLayout = Pitch
    /\ FieldsAt(i).dstMemoryLayout = Pitch

AllEqualPitch == regs["pitchIn"] = regs["pitchOut"] /\ regs["pitchIn"] = regs["lineLengthIn"]

\* C8: a multi-line pitch to pitch launch with pitchIn = pitchOut =
\* lineLengthIn issues exactly one Copy, from offsetIn to offsetOut, of
\* lineLengthIn * lineCount bytes (the product of the two 32-bit values).
C8_OneCopyOfFullProduct ==
    \A i \in Launches :
        IsPitchToPitch(i) /\ AllEqualPitch =>
            Only(Segment(i), {"Copy"}) =
                <<[op |-> "Copy", dst |-> OffsetOut(regs), src |-> OffsetIn(regs),
                   size |-> MulWide(regs["lineLengthIn"], regs["lineCount"])]>>

\* 1024 bytes x 10 lines: one copy of 10240 bytes
C8_Witness ==
    \E i \in Launches :
        /\ IsPitchToPitch(i) /\ AllEqualPitch
        /\ regs["lineLengthIn"] = U32(1024) /\ regs["lineCount"] = U32(10)
        /\ Only(Segment(i), {"Copy"}) =
              <<[op |-> "Copy", dst |-> OffsetOut(regs), src |-> OffsetIn(regs),
                 size |-> U64(10240)]>>

\* the offset of row i from base, in 64-bit arithmetic
RowAddress(base, i, pitch) == Add(base, MulWide(U32(i), pitch))

\* C9: a multi-line pitch to pitch launch whose pitchIn, pitchOut and
\* lineLengthIn are not all equal issues lineCount copies in row order, the
\* i-th of lineLengthIn bytes from offsetIn + i * pitchIn to
\* offsetOut + i * pitchOut; none when lineCount is 0.
C9_OneCopyPerRow ==
    \A i \in Launches :
        IsPitchToPitch(i) /\ ~AllEqualPitch =>
            Only(Segment(i), {"Copy"}) =
                [row \in 1..ToNat(regs["lineCount"]) |->
                    [op   |-> "Copy",
                     dst  |-> RowAddress(OffsetOut(regs), row - 1, regs["pitchOut"]),
                     src  |-> RowAddress(OffsetIn(regs), row - 1, regs["pitchIn"]),
                     size |-> Ext(regs["lineLengthIn"])]]

\* 16 rows of 16 bytes, 16 apart in the source and 32 apart in the destination
C9_Witness ==
    \E i \in Launches :
        /\ IsPitchToPitch(i) /\ ~AllEqualPitch
        /\ regs["lineCount"] = U32(16)
        /\ LET copies == Only(Segment(i), {"Copy"})
           IN  /\ Len(copies) = 16
               /\ copies[16].src = Add(OffsetIn(regs), U64(240))
               /\ copies[16].dst = Add(OffsetOut(regs), U64(480))

\* C10: a launch with remapEnable and multiLineEnable clear issues exactly one
\* Copy(offsetOut, offsetIn, lineLengthIn), whatever the layout bits,
\* lineCount, the pitches and the surface registers hold, and neither Submit
\* nor TranslateRange is called.
C10_OneDimensionalCopy ==
    \A i \in Launches :
        ~FieldsAt(i).remapEnable /\ ~FieldsAt(i).multiLineEnable =>
            /\ Only(Segment(i), {"Copy"}) =
                  <<[op |-> "Copy", dst |-> OffsetOut(regs), src |-> OffsetIn(regs),
                     size |-> Ext(regs["lineLengthIn"])]>>
            /\ Only(Segment(i), CopyOps \ {"Copy"}) = <<>>

\* a 1-D launch with the layout bits of a block-linear to pitch copy, over
\* registers that describe 16 lines of a windowed surface
C10_Witness ==
    \E i \in Launches :
        /\ ~FieldsAt(i).remapEnable /\ ~FieldsAt(i).multiLineEnable
        /\ FieldsAt(i).srcMemoryLayout = BlockLinear /\ FieldsAt(i).dstMemoryLayout = Pitch
        /\ regs["lineCount"] = U32(16) /\ regs["srcOriginX"] = U32(48)
        /\ Only(Segment(i), CopyOps) =
              <<[op |-> "Copy", dst |-> OffsetOut(regs), src |-> OffsetIn(regs),
                 size |-> U64(16)]>>

\* the MMU writes the semaphore type of the launch at i calls for
ReleaseWrites(i) ==
    LET l       == FieldsAt(i)
        ticks   == Only(Segment(i), {"GetGpuTimeTicks"})
        payload == [op |-> "Write", address |-> SemaphoreAddress(regs),
                    value |-> Ext(regs["semaphorePayload"])]
    IN  CASE l.semaphoreType = ReleaseOneWordSemaphore -> <<payload>>
          [] l.semaphoreType = ReleaseFourWordSemaphore /\ Len(ticks) = 1 ->
               <<[op |-> "Write", address |-> Add(SemaphoreAddress(regs), U64(8)),
                  value |-> ticks[1].value], payload>>
          [] OTHER -> <<>>

\* the launch at i released its semaphore once, as its semaphore type says
ReleasedAsTyped(i) ==
    /\ Len(Only(Segment(i), {"ReleaseSemaphore"})) = 1
    /\ Len(Only(Segment(i), {"GetGpuTimeTicks"})) =
          IF FieldsAt(i).semaphoreType = ReleaseFourWordSemaphore THEN 1 ELSE 0
    /\ Only(Segment(i), {"Write"}) = ReleaseWrites(i)

\* C11: a launch with remapEnable set performs no copy of any kind (no
\* Submit, no TranslateRange, no Copy, no swizzle copy), whatever its other
\* flags, and still releases the semaphore as semaphoreType says.
C11_RemapSkipsCopyAndReleases ==
    \A i \in Launches :
        FieldsAt(i).remapEnable =>
            /\ Only(Segment(i), CopyOps) = <<>>
            /\ ReleasedAsTyped(i)

\* a remapped multi-line launch over the 1024 x 10 registers: nothing is
\* copied and the four-word release is made
C11_Witness ==
    \E i \in Launches :
        /\ FieldsAt(i).remapEnable /\ FieldsAt(i).multiLineEnable
        /\ FieldsAt(i).semaphoreType = ReleaseFourWordSemaphore
        /\ regs["lineCount"] = U32(10)
        /\ IsLogged(Segment(i), "remap")
        /\ Len(Only(Segment(i), {"Write"})) = 2

\* the launch at i is multi-line, not remapped, between a block-linear and a
\* pitch surface; BlockLinearSide is the block-linear one
IsSwizzleLaunch(i) ==
    /\ ~FieldsAt(i).remapEnable
    /\ FieldsAt(i).multiLineEnable
    /\ FieldsAt(i).srcMemoryLayout # FieldsAt(i).dstMemoryLayout

BlockLinearSide(i) == IF FieldsAt(i).srcMemoryLayout = BlockLinear THEN "src" ELSE "dst"

\* the unsupported cases of a multi-line launch
IsBothBlockLinear(i) ==
    /\ ~FieldsAt(i).remapEnable
    /\ FieldsAt(i).multiLineEnable
    /\ FieldsAt(i).srcMemoryLayout = BlockLinear
    /\ FieldsAt(i).dstMemoryLayout = BlockLinear

IsWideBlock(i) == IsSwizzleLaunch(i) /\ Surface(regs, BlockLinearSide(i)).blockWidth # 1

IsSplit(i) == IsSwizzleLaunch(i) /\ (mmu[OffsetIn(regs)] # 1 \/ mmu[OffsetOut(regs)] # 1)

SwizzleOps ==
    {"CopyBlockLinearToPitch", "CopyBlockLinearToPitchSubrect",
     "CopyPitchToBlockLinear", "CopyPitchToBlockLinearSubrect"}

\* C12: a multi-line launch that hits an unsupported case (both layouts
\* BlockLinear, a block-linear surface of block width other than 1, a source
\* or destination range not translated to exactly one mapping) copies no
\* guest memory - no Copy, no swizzle copy - and still releases the
\* semaphore as semaphoreType says.
C12_UnsupportedSkipsCopyAndReleases ==
    \A i \in Launches :
        IsBothBlockLinear(i) \/ IsWideBlock(i) \/ IsSplit(i) =>
            /\ Only(Segment(i), SwizzleOps \cup {"Copy"}) = <<>>
            /\ ReleasedAsTyped(i)

\* a pitch to block-linear launch whose source range is unmapped: both
\* ranges were translated, nothing was copied, the release was made
C12_Witness ==
    \E i \in Launches :
        /\ IsSplit(i) /\ ~IsWideBlock(i)
        /\ FieldsAt(i).srcMemoryLayout = Pitch
        /\ mmu[OffsetIn(regs)] = 0
        /\ FieldsAt(i).semaphoreType = ReleaseFourWordSemaphore
        /\ Len(Only(Segment(i), {"TranslateRange"})) = 2
        /\ Only(Segment(i), SwizzleOps \cup {"Copy"}) = <<>>
        /\ Len(Only(Segment(i), {"Write"})) = 2

\* C13: a launch with semaphoreType ReleaseOneWordSemaphore makes exactly one
\* MMU write, of the payload to semaphore.address; with semaphoreType None or
\* any value other than OneWord and FourWord the release makes no MMU write.
C13_OneWordOrNoWrite ==
    \A i \in Launches :
        LET writes == Only(Segment(i), {"Write"})
        IN  /\ FieldsAt(i).semaphoreType = ReleaseOneWordSemaphore =>
                  writes = <<[op |-> "Write", address |-> SemaphoreAddress(regs),
                              value |-> Ext(regs["semaphorePayload"])]>>
            /\ FieldsAt(i).semaphoreType \notin
                  {ReleaseOneWordSemaphore, ReleaseFourWordSemaphore} => writes = <<>>

\* a batch whose launches have semaphore types 1 and 0: the only MMU write
\* is the payload 7 at 0x200
C13_Witness ==
    /\ lastCall.kind = "CallMethodBatchNonInc"
    /\ lastCall.arguments = <<LaunchWord(0, 0, 0, 0, 0, ReleaseOneWordSemaphore),
                              LaunchWord(1, 1, 0, 1, 0, SemaphoreNone)>>
    /\ Only(trace, {"Write"}) =
          <<[op |-> "Write", address |-> U64(512), value |-> U64(7)]>>

\* C14: a launch with remapEnable clear and multiLineEnable set calls
\* executor.Submit exactly once, before every TranslateRange, Copy and
\* swizzle copy it makes.
C14_SubmitOnceBeforeCopies ==
    \A i \in Launches :
        ~FieldsAt(i).remapEnable /\ FieldsAt(i).multiLineEnable =>
            LET seg     == Segment(i)
                submits == {k \in DOMAIN seg : seg[k].op = "Submit"}
            IN  /\ Cardinality(submits) = 1
                /\ \A k \in submits : \A c \in DOMAIN seg :
                      seg[c].op \in CopyOps \ {"Submit"} => k < c

\* a sub-rectangle copy out of the windowed surface: Submit, two
\* translations, the swizzle copy
C14_Witness ==
    \E i \in Launches :
        /\ IsSwizzleLaunch(i)
        /\ [k \in DOMAIN Only(Segment(i), CopyOps) |-> Only(Segment(i), CopyOps)[k].op] =
              <<"Submit", "TranslateRange", "TranslateRange", "CopyBlockLinearToPitchSubrect">>

\* the value of a u64 below 2^31 as a natural
TicksToNat(t) == t[1] + Limb * t[2]

\* what a launch of word over the registers r makes of calls when nothing
\* went before it; the clock is set to the tick the launch at i read
FreshLaunch(i, r) ==
    LET ticks == Only(Segment(i), {"GetGpuTimeTicks"})
        clock == IF ticks = <<>> THEN 0 ELSE TicksToNat(ticks[1].value)
    IN  LaunchDma([regs    |-> [r EXCEPT !["launchDma"] = trace[i].value],
                   trace   |-> <<>>,
                   gpuTime |-> clock]).trace

\* C20: the launch handler never modifies the register file, whether the
\* launch succeeds or bails out: after a call every register word holds the
\* last argument written to it (or what it held), and the calls each launch
\* makes are those of a launch of its word over the register file alone,
\* whatever the launches before it did.
C20_LaunchLeavesRegistersAlone ==
    /\ [][LET method    == lastCall'.method
              arguments == lastCall'.arguments
          IN  /\ DOMAIN regs' = DOMAIN regs
              /\ \A w \in DOMAIN regs :
                    regs'[w] = IF w = method /\ arguments # <<>>
                               THEN arguments[Len(arguments)] ELSE regs[w]]_vars
    /\ [](\A i \in Launches : Segment(i) = FreshLaunch(i, regs))

\* a batch of two launches, the first bailing out on the remap flag, the
\* second copying 1024 x 10 bytes: registers as written, both released
C20_Witness ==
    /\ lastCall.kind = "CallMethodBatchNonInc"
    /\ lastCall.arguments = <<LaunchWord(1, 1, 0, 1, 0, SemaphoreNone),
                              LaunchWord(1, 0, 1, 1, 0, ReleaseFourWordSemaphore)>>
    /\ regs["launchDma"] = LaunchWord(1, 0, 1, 1, 0, ReleaseFourWordSemaphore)
    /\ regs["lineCount"] = U32(10)
    /\ IsLogged(trace, "remap")
    /\ Len(Only(trace, {"Copy"})) = 1
    /\ Len(Only(trace, {"ReleaseSemaphore"})) = 2

\* the launch at i reached the choice between the two copiers
PassedChecks(i) == IsSwizzleLaunch(i) /\ ~IsWideBlock(i) /\ ~IsSplit(i)

\* align_down(a, 64) = align_down(b, 64) for two u32
SameGobColumn(a, b) == a[2] = b[2] /\ a[1] \div 64 = b[1] \div 64

\* the condition under which the sub-rectangle copier is to be used
NeedsSubrect(i) ==
    LET surf == Surface(regs, BlockLinearSide(i))
    IN  \/ ~SameGobColumn(surf.width, regs["lineLengthIn"])
        \/ surf.originX # U32(0)
        \/ surf.originY # U32(0)

\* C21: a block-linear <-> pitch launch that passes the block-width and
\* single-mapping checks runs exactly one swizzle copier: the sub-rectangle
\* one, with the origin of the block-linear surface, if and only if
\* align_down(surface width, 64) # align_down(lineLengthIn, 64) or origin.x # 0
\* or origin.y # 0, and the full-surface one otherwise.
C21_SubrectIffMisalignedOrOffset ==
    \A i \in Launches :
        PassedChecks(i) =>
            LET copies  == Only(Segment(i), SwizzleOps)
                surf    == Surface(regs, BlockLinearSide(i))
                toPitch == BlockLinearSide(i) = "src"
            IN  /\ Len(copies) = 1
                /\ NeedsSubrect(i) =>
                      /\ copies[1].op = IF toPitch THEN "CopyBlockLinearToPitchSubrect"
                                                   ELSE "CopyPitchToBlockLinearSubrect"
                      /\ copies[1].originX = surf.originX
                      /\ copies[1].originY = surf.originY
                      /\ copies[1].pitchDimensions[1] = regs["lineLengthIn"]
                      /\ copies[1].blockLinearDimensions[1] = surf.width
                /\ ~NeedsSubrect(i) =>
                      /\ copies[1].op = IF toPitch THEN "CopyBlockLinearToPitch"
                                                   ELSE "CopyPitchToBlockLinear"
                      /\ copies[1].dimensions[1] = regs["lineLengthIn"]

\* a pitch to block-linear launch into a 64 x 8 surface at origin (0, 8): the
\* widths agree and the sub-rectangle copier ran because of origin.y alone
C21_Witness ==
    \E i \in Launches :
        /\ PassedChecks(i)
        /\ BlockLinearSide(i) = "dst"
        /\ regs["dstWidth"] = U32(64) /\ regs["lineLengthIn"] = U32(64)
        /\ regs["dstOriginX"] = U32(0) /\ regs["dstOriginY"] = U32(8)
        /\ Only(Segment(i), SwizzleOps)[1].op = "CopyPitchToBlockLinearSubrect"

\* the size of one layer of the block-linear surface of the launch at i
LayerStride(i) ==
    LET surf == Surface(regs, BlockLinearSide(i))
    IN  GetBlockLinearLayerSize(NatDimensions(<<surf.width, surf.height, surf.depth>>), 1, 1, 1,
                                surf.blockHeight, surf.blockDepth)

\* the address the launch at i translated for its block-linear side: the
\* first translation when the source is block linear, the second otherwise
TranslatedBlockLinear(i) ==
    LET ranges == Only(Segment(i), {"TranslateRange"})
    IN  ranges[IF BlockLinearSide(i) = "src" THEN 1 ELSE 2].address

\* the offset register of the block-linear side
BlockLinearOffset(i) == IF BlockLinearSide(i) = "src" THEN OffsetIn(regs) ELSE OffsetOut(regs)

\* C24: in a block-linear <-> pitch launch the address translated for the
\* block-linear side is offset + layer * layerStride, layerStride being the
\* single-layer block-linear size, so that the layer register selects the
\* layer copied.
C24_LayerSelectsAddress ==
    \A i \in Launches :
        IsSwizzleLaunch(i) /\ ~IsWideBlock(i) =>
            TranslatedBlockLinear(i) =
                Add(BlockLinearOffset(i),
                    MulWide(Surface(regs, BlockLinearSide(i)).layer, U32(LayerStride(i))))

\* a launch from layer 1 of the 100 x 16 surface, one layer of which takes
\* 2048 bytes: the range translated starts at offsetIn, not 2048 bytes on
C24_Witness ==
    \E i \in Launches :
        /\ PassedChecks(i)
        /\ BlockLinearSide(i) = "src"
        /\ regs["srcLayer"] = U32(1)
        /\ LayerStride(i) = 2048
        /\ TranslatedBlockLinear(i) = OffsetIn(regs)
        /\ TranslatedBlockLinear(i) # Add(OffsetIn(regs), U64(2048))
        /\ Only(Segment(i), SwizzleOps)[1].blockLinear = OffsetIn(regs)

\* the launch word with the reductionEnable bit inverted
FlipReduction(word) ==
    <<IF Bits(word, 6, 1) = 1 THEN word[1] - 64 ELSE word[1] + 64, word[2]>>

\* what the launch at i would have done with the reductionEnable bit
\* inverted and every other register bit the same
FlippedLaunch(i) ==
    LET ticks == Only(Segment(i), {"GetGpuTimeTicks"})
        clock == IF ticks = <<>> THEN 0 ELSE TicksToNat(ticks[1].value)
    IN  LaunchDma([regs    |-> [regs EXCEPT !["launchDma"] = FlipReduction(trace[i].value)],
                   trace   |-> <<>>,
                   gpuTime |-> clock]).trace

\* the calls of a launch but for the warning about reductions
WithoutReductionWarning(seg) ==
    SelectSeq(seg, LAMBDA e : ~(e.op = "Log" /\ e.what = "reduction"))

\* C27: reductionEnable is a pure warning: a launch and the launch whose
\* registers differ from it in the reductionEnable bit only make the same
\* copy operations and the same semaphore writes in the same order; they
\* differ in the warning alone, which the one with the bit set logs.
C27_ReductionOnlyWarns ==
    \A i \in Launches :
        /\ WithoutReductionWarning(Segment(i)) = WithoutReductionWarning(FlippedLaunch(i))
        /\ Only(Segment(i), CopyOps \cup {"Write"}) = Only(FlippedLaunch(i), CopyOps \cup {"Write"})
        /\ IsLogged(Segment(i), "reduction") = FieldsAt(i).reductionEnable
        /\ IsLogged(FlippedLaunch(i), "reduction") = ~FieldsAt(i).reductionEnable

\* a pitch to pitch launch of 1024 x 10 bytes with reductionEnable set and a
\* one-word release: it warned, copied and wrote the payload, as the launch
\* without the bit does
C27_Witness ==
    \E i \in Launches :
        /\ FieldsAt(i).reductionEnable
        /\ FieldsAt(i).semaphoreType = ReleaseOneWordSemaphore
        /\ regs["lineCount"] = U32(10)
        /\ IsLogged(Segment(i), "reduction")
        /\ ~IsLogged(FlippedLaunch(i), "reduction")
        /\ Len(Only(Segment(i), {"Copy"})) = 1
        /\ Len(Only(Segment(i), {"Write"})) = 1
        /\ Len(Only(FlippedLaunch(i), {"Write"})) = 1

-----------------------------------------------------------------------------
(* The swizzle copier under test: a pitch buffer is written into a          *)
(* block-linear buffer and read back with the same parameters.  Bytes carry *)
(* distinct labels: pitch byte i holds i + 1, block-linear byte o holds     *)
(* -(o + 1) before the write, and the buffer read back into starts as Junk. *)

\* widths and depths of the surfaces tried, in texels
MaxWidth == 5

MaxDepth == 3

Formats == {<<1, 1, bpb>> : bpb \in DispatchedBpb} \cup {<<2, 2, 4>>, <<4, 4, 8>>}

\* full-surface parameters; heights straddle the ROB height 8 * gobBlockHeight
FullParams ==
    {[kind |-> "full", dimensions |-> <<w, h, d>>, blockLinearDimensions |-> <<w, h, d>>,
      formatBlockWidth |-> f[1], formatBlockHeight |-> f[2], formatBpb |-> f[3],
      pitchAmount |-> pad * (DivideCeil(w, f[1]) * f[3] + 3),
      gobBlockHeight |-> gbh, gobBlockDepth |-> gbd,
      originX |-> 0, originY |-> 0, u96Bytes |-> u, fault |-> FALSE] :
        w \in 1..MaxWidth, h \in {1, 2}, d \in 1..MaxDepth, f \in Formats,
        pad \in {0, 1}, gbh \in {1, 2}, gbd \in {1, 2}, u \in U96CopySizes}

\* surfaces for the width coalescing: rows of 1 to MaxWidth and of 16 texels
\* of every size that is merged; the rows of 16 can be copied 16 bytes at a
\* time for any texel size; 9 lines reach into a second GOB row
CoalesceParams ==
    {[kind |-> "full", dimensions |-> <<w, h, d>>, blockLinearDimensions |-> <<w, h, d>>,
      formatBlockWidth |-> 1, formatBlockHeight |-> 1, formatBpb |-> bpb,
      pitchAmount |-> pad * (w * bpb + 16),
      gobBlockHeight |-> gbh, gobBlockDepth |-> gbd,
      originX |-> 0, originY |-> 0, u96Bytes |-> 12, fault |-> FALSE] :
        w \in (1..MaxWidth) \cup {16}, h \in {1, 9}, d \in {1, 2},
        bpb \in DispatchedBpb \ {12}, pad \in {0, 1}, gbh \in {1, 2}, gbd \in {1, 2}}
    \cup
    \* block-compressed formats: 33 texel lines make 9 or 17 lines of blocks
    {[kind |-> "full", dimensions |-> <<w, 33, d>>, blockLinearDimensions |-> <<w, 33, d>>,
      formatBlockWidth |-> f[1], formatBlockHeight |-> f[2], formatBpb |-> f[3],
      pitchAmount |-> pad * (DivideCeil(w, f[1]) * f[3] + 16),
      gobBlockHeight |-> gbh, gobBlockDepth |-> gbd,
      originX |-> 0, originY |-> 0, u96Bytes |-> 12, fault |-> FALSE] :
        w \in {7, 16}, d \in {1, 2}, f \in {<<2, 2, 4>>, <<4, 4, 8>>},
        pad \in {0, 1}, gbh \in {1, 2}, gbd \in {1, 2}}

\* a 64 x 8 surface of 4-byte texels in blocks of one GOB
Surface64x8 ==
    [kind |-> "full", dimensions |-> <<64, 8, 1>>, blockLinearDimensions |-> <<64, 8, 1>>,
     formatBlockWidth |-> 1, formatBlockHeight |-> 1, formatBpb |-> 4,
     pitchAmount |-> 0, gobBlockHeight |-> 1, gobBlockDepth |-> 1,
     originX |-> 0, originY |-> 0, u96Bytes |-> 12, fault |-> FALSE]

CopyParams == {c \in FullParams : c.formatBpb # 12 => c.u96Bytes = 12} \cup {Surface64x8}

\* sub-rectangle parameters: a window of at most MaxWidth x 3 texels of a
\* (15 + MaxWidth) x 10 surface, at origins that put it inside one GOB, across the GOB
\* boundaries at byte column 64 and at line 8, and off the texel block grid
WindowParams ==
    {[kind |-> "subrect", dimensions |-> <<w, h, dg[1]>>,
      blockLinearDimensions |-> <<(15 + MaxWidth) * f[1], 10 * f[2], dg[1]>>,
      formatBlockWidth |-> f[1], formatBlockHeight |-> f[2], formatBpb |-> f[3],
      pitchAmount |-> 0, gobBlockHeight |-> gbh, gobBlockDepth |-> dg[2],
      originX |-> ox, originY |-> oy, u96Bytes |-> u, fault |-> FALSE] :
        w \in 1..MaxWidth, h \in {1, 3}, dg \in {<<1, 1>>, <<2, 1>>, <<2, 2>>}, f \in Formats,
        gbh \in {1, 2}, ox \in {0, 3, 15}, oy \in {0, 7}, u \in U96CopySizes}

\* a 16 x 16 window of a 256 x 256 surface of one-byte texels at origin (48, 32)
Window16 ==
    [kind |-> "subrect", dimensions |-> <<16, 16, 1>>, blockLinearDimensions |-> <<256, 256, 1>>,
     formatBlockWidth |-> 1, formatBlockHeight |-> 1, formatBpb |-> 1,
     pitchAmount |-> 0, gobBlockHeight |-> 4, gobBlockDepth |-> 1,
     originX |-> 48, originY |-> 32, u96Bytes |-> 12, fault |-> FALSE]

SubrectParams == {c \in WindowParams : c.formatBpb # 12 => c.u96Bytes = 12} \cup {Window16}

TextureWidthBytes(c) == DivideCeil(c.dimensions[1], c.formatBlockWidth) * c.formatBpb

TextureHeight(c) == DivideCeil(c.dimensions[2], c.formatBlockHeight)

PitchBytes(c) == IF c.pitchAmount # 0 THEN c.pitchAmount ELSE TextureWidthBytes(c)

PitchSize(c) == PitchBytes(c) * TextureHeight(c) * c.blockLinearDimensions[3]

BlockLinearSize(c) ==
    GetBlockLinearLayerSize(c.blockLinearDimensions, c.formatBlockWidth, c.formatBlockHeight,
                            c.formatBpb, c.gobBlockHeight, c.gobBlockDepth)

PitchLabels(c) == [i \in 0..(PitchSize(c) - 1) |-> i + 1]

OldBlockLinear(c) == [o \in 0..(BlockLinearSize(c) - 1) |-> 0 - (o + 1)]

BlankPitch(c) == [i \in 0..(PitchSize(c) - 1) |-> Junk]

\* the state before a round trip with parameters from params
InitWith(params) ==
    /\ cp \in params
    /\ pitchBuf = PitchLabels(cp)
    /\ blBuf = OldBlockLinear(cp)
    /\ phase = "ready"
    /\ regs = ZeroRegisters
    /\ trace = <<>>
    /\ lastCall = [kind |-> "none", method |-> "nop", arguments |-> <<>>]
    /\ gpuTime = 1000
    /\ mmu = [a \in GpuAddrs |-> 1]
    /\ calls = 0

InitCopy == InitWith(CopyParams)

InitSubrect == InitWith(SubrectParams)

\* the copier call cp describes, in the given direction
Copier(blockLinearToPitch, blockLinear, pitch) ==
    IF cp.kind = "full"
    THEN CopyBlockLinearInternal(blockLinearToPitch, cp.dimensions, cp.formatBlockWidth,
                                 cp.formatBlockHeight, cp.formatBpb, cp.pitchAmount,
                                 cp.gobBlockHeight, cp.gobBlockDepth, blockLinear, pitch,
                                 cp.u96Bytes)
    ELSE CopyBlockLinearSubrectInternal(blockLinearToPitch, cp.dimensions,
                                        cp.blockLinearDimensions, cp.formatBlockWidth,
                                        cp.formatBlockHeight, cp.formatBpb, cp.pitchAmount,
                                        cp.gobBlockHeight, cp.gobBlockDepth, blockLinear, pitch,
                                        cp.originX, cp.originY, cp.u96Bytes)

\* CopyPitchToBlockLinear / CopyPitchToBlockLinearSubrect
PitchToBlockLinear ==
    /\ phase = "ready"
    /\ LET result == Copier(FALSE, blBuf, pitchBuf)
       IN  /\ blBuf' = result.buf
           /\ cp' = [cp EXCEPT !.fault = result.fault]
    /\ phase' = "swizzled"
    /\ UNCHANGED <<pitchBuf, dmaVars>>

\* CopyBlockLinearToPitch / CopyBlockLinearToPitchSubrect, into a fresh buffer
BlockLinearToPitch ==
    /\ phase = "swizzled"
    /\ LET result == Copier(TRUE, blBuf, BlankPitch(cp))
       IN  /\ pitchBuf' = result.buf
           /\ cp' = [cp EXCEPT !.fault = @ \/ result.fault]
    /\ phase' = "restored"
    /\ UNCHANGED <<blBuf, dmaVars>>

NextCopy == PitchToBlockLinear \/ BlockLinearToPitch

SpecCopy == InitCopy /\ [][NextCopy]_vars

SpecSubrect == InitSubrect /\ [][NextCopy]_vars

InitCoalesce == InitWith(CoalesceParams)

SpecCoalesce == InitCoalesce /\ [][NextCopy]_vars

-----------------------------------------------------------------------------
(* Properties of the swizzle copier.  Positions are in texel blocks: x, y   *)
(* and z count blocks of the window copied, k counts the bytes of a block.  *)

\* the address formula of block-linear memory as the specification gives it,
\* for byte column xb of line y of slice z of the surface cp describes (the
\* bit fields it combines with | are disjoint, so they are added)
SpecOffset(xb, y, z, c) ==
    LET robHeight           == c.gobBlockHeight * 8
        alignedDepth        == AlignUp(c.blockLinearDimensions[3], c.gobBlockDepth)
        robLineBytesAligned ==
            AlignUp(DivideCeil(c.blockLinearDimensions[1], c.formatBlockWidth) * c.formatBpb, 64)
        blockX     == xb \div 64
        robY       == AlignDown(y, robHeight) \div robHeight
        blockZ     == z \div c.gobBlockDepth
        robBase    == robY * (robLineBytesAligned * robHeight * alignedDepth)
        blockBase  == robBase + blockX * (robHeight * 64 * alignedDepth)
                      + blockZ * (robHeight * 64 * c.gobBlockDepth)
        gobY_block == (y % robHeight) \div 8
        gobZ_block == z % c.gobBlockDepth
        gobBase    == blockBase + (gobZ_block * c.gobBlockHeight + gobY_block) * 512
        intraGobY  == ((y % 8) \div 2) * 64 + (y % 2) * 16
        intraGobX  == ((xb % 64) \div 32) * 256 + ((xb % 32) \div 16) * 32 + (xb % 16)
    IN  gobBase + intraGobY + intraGobX

\* first texel block of the window on the surface
OriginBlockX(c) == DivideCeil(c.originX, c.formatBlockWidth)

OriginBlockY(c) == DivideCeil(c.originY, c.formatBlockHeight)

\* the texel-block bytes of the window: <<column byte, line, slice>>
WindowBytes(c) ==
    (0..(TextureWidthBytes(c) - 1)) \X (0..(TextureHeight(c) - 1))
        \X (0..(c.blockLinearDimensions[3] - 1))

\* position in the pitch buffer of column byte b[1] of line b[2] of slice b[3]
PitchPosition(b, c) == (b[3] * TextureHeight(c) + b[2]) * PitchBytes(c) + b[1]

\* its position in the block-linear buffer by the address formula
BlockLinearPosition(b, c) ==
    SpecOffset(OriginBlockX(c) * c.formatBpb + b[1], OriginBlockY(c) + b[2], b[3], c)

\* the buffer read back holds, in every texel-block byte, the byte written
ReadBackEqual ==
    \A b \in WindowBytes(cp) : pitchBuf[PitchPosition(b, cp)] = PitchLabels(cp)[PitchPosition(b, cp)]

\* C3: full-surface round trip: whatever the dimensions, the format (bytes
\* per block 1, 2, 4, 8, 12 or 16, any block width and height), gobBlockHeight
\* and gobBlockDepth, a pitch buffer copied into a block-linear buffer of the
\* layer size and copied back with the same parameters comes back byte for
\* byte.
C3_FullRoundTrip ==
    cp.kind = "full" /\ phase = "restored" => ReadBackEqual

\* a 2 x 2 surface of 12-byte texels: byte 4 of texel (1, 0) comes back as
\* byte 0 of texel (0, 1)
C3_Witness ==
    /\ cp.kind = "full" /\ phase = "restored"
    /\ cp.dimensions = <<2, 2, 1>> /\ cp.formatBpb = 12 /\ cp.pitchAmount = 0
    /\ cp.gobBlockHeight = 1 /\ cp.gobBlockDepth = 1 /\ cp.u96Bytes = 12
    /\ pitchBuf[16] = PitchLabels(cp)[24]

\* C4: sub-rectangle round trip and frame: a pitch rectangle written into a
\* block-linear surface at (originX, originY) and read back with the same
\* parameters comes back byte for byte, and every block-linear byte outside
\* the texel blocks of the target rectangle keeps the value it had.
C4_SubrectRoundTripAndFrame ==
    cp.kind = "subrect" =>
        /\ phase = "restored" => ReadBackEqual
        /\ phase \in {"swizzled", "restored"} =>
              LET target == {BlockLinearPosition(b, cp) : b \in WindowBytes(cp)}
              IN  \A o \in DOMAIN blBuf : o \notin target => blBuf[o] = OldBlockLinear(cp)[o]

\* a 2 x 1 window of 12-byte texels at the origin: the second texel went to
\* bytes 12..23, so byte 32, where its byte 4 belongs, kept its old value
\* and byte 4 of texel 1 sits at byte 16
C4_Witness ==
    /\ cp.kind = "subrect" /\ phase = "swizzled"
    /\ cp.dimensions = <<2, 1, 1>> /\ cp.formatBpb = 12 /\ cp.u96Bytes = 12
    /\ cp.originX = 0 /\ cp.originY = 0 /\ cp.gobBlockHeight = 1
    /\ blBuf[32] = OldBlockLinear(cp)[32]
    /\ blBuf[16] = PitchLabels(cp)[16]

\* C5: for every texel block (x, y, z) of a surface and every byte k of it,
\* the block-linear offset the full-surface copier uses is the one the
\* address formula gives for byte column x * bpb + k, for every
\* gobBlockHeight, gobBlockDepth and depth.
C5_OffsetMatchesFormula ==
    cp.kind = "full" /\ phase \in {"swizzled", "restored"} =>
        \A b \in WindowBytes(cp) :
            /\ BlockLinearPosition(b, cp) \in DOMAIN blBuf
            /\ blBuf[BlockLinearPosition(b, cp)] = PitchLabels(cp)[PitchPosition(b, cp)]

\* a 2 x 1 surface of 12-byte texels: byte 4 of texel 1 (column byte 16)
\* belongs at offset 32 and was written to offset 16
C5_Witness ==
    /\ cp.kind = "full" /\ phase = "swizzled"
    /\ cp.dimensions = <<2, 1, 1>> /\ cp.formatBpb = 12 /\ cp.u96Bytes = 12
    /\ cp.pitchAmount = 0 /\ cp.gobBlockHeight = 1 /\ cp.gobBlockDepth = 1
    /\ SpecOffset(16, 0, 0, cp) = 32
    /\ blBuf[32] # PitchLabels(cp)[16]
    /\ blBuf[16] = PitchLabels(cp)[16]

\* the round trip and the offsets for the formats whose texels are copied
\* in units that divide the 16-byte sector
CoalescableRoundTrip ==
    cp.formatBpb # 12 /\ cp.kind \in {"full", "subrect"} =>
        /\ ~cp.fault
        /\ C3_FullRoundTrip /\ C4_SubrectRoundTripAndFrame
        /\ phase \in {"swizzled", "restored"} =>
              \A b \in WindowBytes(cp) :
                  blBuf[BlockLinearPosition(b, cp)] = PitchLabels(cp)[PitchPosition(b, cp)]

RECURSIVE ReferenceBytes(_, _, _, _, _, _, _, _)
\* the reference copier on line y of slice z, column bytes xb to end - 1: one
\* byte at a time, each at the offset the address formula gives; the test of
\* the destination position makes every step finish before the next starts
ReferenceBytes(dst, c, blockLinearToPitch, src, z, y, xb, end) ==
    IF xb >= end THEN dst
    ELSE LET p == PitchPosition(<<xb, y, z>>, c)
             o == BlockLinearPosition(<<xb, y, z>>, c)
             moved == IF blockLinearToPitch THEN [dst EXCEPT ![p] = src[o]]
                                            ELSE [dst EXCEPT ![o] = src[p]]
         IN  IF (IF blockLinearToPitch THEN p ELSE o) \in DOMAIN moved
             THEN ReferenceBytes(moved, c, blockLinearToPitch, src, z, y, xb + 1, end)
             ELSE moved

RECURSIVE ReferenceRow(_, _, _, _, _, _, _)
\* line y of slice z from column byte xb on, in runs of 16 bytes that keep the
\* nesting of the evaluation shallow
ReferenceRow(dst, c, blockLinearToPitch, src, z, y, xb) ==
    IF xb >= TextureWidthBytes(c) THEN dst
    ELSE LET end == IF xb + 16 < TextureWidthBytes(c) THEN xb + 16 ELSE TextureWidthBytes(c)
             copied == ReferenceBytes(dst, c, blockLinearToPitch, src, z, y, xb, end)
         IN  IF DOMAIN copied = DOMAIN dst
             THEN ReferenceRow(copied, c, blockLinearToPitch, src, z, y, end)
             ELSE copied

RECURSIVE ReferenceLines(_, _, _, _, _, _)
ReferenceLines(dst, c, blockLinearToPitch, src, z, y) ==
    IF y >= TextureHeight(c) THEN dst
    ELSE LET copied == ReferenceRow(dst, c, blockLinearToPitch, src, z, y, 0)
         IN  IF DOMAIN copied = DOMAIN dst
             THEN ReferenceLines(copied, c, blockLinearToPitch, src, z, y + 1)
             ELSE copied

RECURSIVE ReferenceSlices(_, _, _, _, _)
ReferenceSlices(dst, c, blockLinearToPitch, src, z) ==
    IF z >= c.blockLinearDimensions[3] THEN dst
    ELSE LET copied == ReferenceLines(dst, c, blockLinearToPitch, src, z, 0)
         IN  IF DOMAIN copied = DOMAIN dst
             THEN ReferenceSlices(copied, c, blockLinearToPitch, src, z + 1)
             ELSE copied

\* what the reference copier leaves in the destination buffer
ReferenceCopy(c, blockLinearToPitch, blockLinear, pitch) ==
    IF blockLinearToPitch THEN ReferenceSlices(pitch, c, TRUE, blockLinear, 0)
                          ELSE ReferenceSlices(blockLinear, c, FALSE, pitch, 0)

\* C15: for texels of 1, 2, 4, 8 or 16 bytes the full-surface copier, which
\* merges neighbouring texels into units of up to 16 bytes while the row
\* length allows, leaves in the destination buffer exactly the bytes a
\* reference copier leaves that moves one byte at a time to the offset of
\* the address formula, from pitch to block linear and from block linear to
\* pitch.
C15_CoalescedEqualsByteCopy ==
    cp.kind = "full" /\ cp.formatBpb \in {1, 2, 4, 8, 16} =>
        /\ phase \in {"swizzled", "restored"} => ~cp.fault
        /\ phase = "swizzled" =>
              blBuf = ReferenceCopy(cp, FALSE, OldBlockLinear(cp), pitchBuf)
        /\ phase = "restored" => pitchBuf = ReferenceCopy(cp, TRUE, blBuf, BlankPitch(cp))

\* one-byte texels in rows of 16 were copied as one 16-byte unit a row, in 9
\* rows with padding between them, there and back
C15_Witness ==
    /\ cp.kind = "full" /\ phase = "restored"
    /\ cp.dimensions = <<16, 9, 2>> /\ cp.formatBpb = 1 /\ cp.pitchAmount = 32
    /\ Coalesce(16, TextureWidthBytes(cp), cp.formatBpb) = <<1, 16>>
    /\ blBuf[SpecOffset(15, 8, 1, cp)] = PitchLabels(cp)[PitchPosition(<<15, 8, 1>>, cp)]
    /\ pitchBuf[PitchPosition(<<15, 8, 1>>, cp)] = PitchLabels(cp)[PitchPosition(<<15, 8, 1>>, cp)]
    /\ pitchBuf[16] = Junk

\* the block-linear offsets that hold a byte of the pitch buffer
Written == {o \in DOMAIN blBuf : blBuf[o] > 0}

\* C23: the full-surface copier, for texels of 1, 2, 4, 8 or 16 bytes and
\* every dimensions, format block size, gobBlockHeight and gobBlockDepth,
\* reads and writes block-linear bytes inside the layer size and pitch bytes
\* inside pitchBytes * ceil(h / fmtBh) * depth only, and never maps two
\* pitch bytes to one block-linear offset.
C23_FullCopierStaysInBounds ==
    cp.kind = "full" /\ cp.formatBpb \in {1, 2, 4, 8, 16} =>
        /\ DOMAIN blBuf = 0..(BlockLinearSize(cp) - 1)
        /\ DOMAIN pitchBuf = 0..(PitchBytes(cp) * TextureHeight(cp) * cp.dimensions[3] - 1)
        /\ ~cp.fault
        /\ phase \in {"swizzled", "restored"} =>
              Cardinality(Written) = Cardinality(WindowBytes(cp))

\* 16 x 33 texels in 4 x 4 blocks of 8 bytes, two slices in blocks one GOB
\* high and two deep: 9 lines of blocks of 32 bytes went there and back
\* inside the buffers, the last byte of the last line at the offset of the
\* address formula
C23_Witness ==
    /\ phase = "restored"
    /\ cp.kind = "full"
    /\ cp.dimensions = <<16, 33, 2>>
    /\ <<cp.formatBlockWidth, cp.formatBlockHeight, cp.formatBpb>> = <<4, 4, 8>>
    /\ <<cp.gobBlockHeight, cp.gobBlockDepth>> = <<1, 2>>
    /\ ~cp.fault
    /\ Cardinality(Written) = 32 * 9 * 2
    /\ blBuf[SpecOffset(31, 8, 1, cp)] = PitchLabels(cp)[PitchPosition(<<31, 8, 1>>, cp)]

\* the surface of scenario S1 after the copy from pitch to block linear
IsS1 ==
    /\ cp.kind = "full"
    /\ phase \in {"swizzled", "restored"}
    /\ cp.dimensions = <<64, 8, 1>>
    /\ <<cp.formatBlockWidth, cp.formatBlockHeight, cp.formatBpb>> = <<1, 1, 4>>
    /\ <<cp.gobBlockHeight, cp.gobBlockDepth>> = <<1, 1>>
    /\ cp.pitchAmount = 0

\* the first byte of texel (x, y) of the pitch buffer the copy started from
TexelByte(x, y) == PitchLabels(cp)[PitchPosition(<<x * cp.formatBpb, y, 0>>, cp)]

\* C18 as stated: the surface of S1 takes one GOB, 512 bytes, and the copy
\* from pitch to block linear puts the first byte of texel (16, 0) at offset
\* 0x100, of texel (0, 1) at 0x10 and of texel (0, 7) at 0x70.
C18_S1OneGob ==
    IsS1 =>
        /\ BlockLinearSize(cp) = 512
        /\ DOMAIN blBuf = 0..511
        /\ blBuf[256] = TexelByte(16, 0)
        /\ blBuf[16] = TexelByte(0, 1)
        /\ blBuf[112] = TexelByte(0, 7)

\* C18: the surface of S1 has rows of 256 bytes and takes four GOBs, 2048
\* bytes, and the copy from pitch to block linear puts the first byte of
\* texel (16, 0) at the start of the second GOB, offset 0x200, of texel
\* (0, 1) at 0x10 and of texel (0, 7) at 0xD0; offset 0x100 holds texel (8, 0).
C18_S1FourGobs ==
    IsS1 =>
        /\ BlockLinearSize(cp) = 2048
        /\ DOMAIN blBuf = 0..2047
        /\ blBuf[512] = TexelByte(16, 0)
        /\ blBuf[16] = TexelByte(0, 1)
        /\ blBuf[208] = TexelByte(0, 7)
        /\ blBuf[256] = TexelByte(8, 0)
        /\ \A x \in 0..63, y \in 0..7 : blBuf[SpecOffset(x * 4, y, 0, cp)] = TexelByte(x, y)

C18_Witness ==
    /\ IsS1
    /\ phase = "swizzled"
    /\ TexelByte(16, 0) = 65
    /\ blBuf[512] = 65
    /\ blBuf[112] = TexelByte(4, 3)

-----------------------------------------------------------------------------
(* The copier as the DMA engine calls it: the register file of a launch     *)
(* between a pitch buffer and a block-linear surface decides which copier   *)
(* runs and with which arguments; the buffers are those of the surface the  *)
(* registers declare.                                                       *)

\* <<lineLengthIn, surface width>>: equal, apart within one GOB column, apart
\* across GOB columns, and narrow rows
DispatchWidths ==
    {<<64, 64>>, <<64, 100>>, <<70, 100>>, <<100, 100>>, <<100, 64>>}
    \cup {<<w, MaxWidth + 1>> : w \in 1..MaxWidth}

\* register files of such launches: surfaces 16 lines high; 9 and 16 lines
\* reach the second row of blocks when a block is one GOB high
DispatchRegisters ==
    {Programmed([pitchIn |-> U32(w[1] + pad), pitchOut |-> U32(w[1] + pad),
                 lineLengthIn |-> U32(w[1]), lineCount |-> U32(lc),
                 srcWidth |-> U32(w[2]), srcHeight |-> U32(16), srcDepth |-> U32(d),
                 srcBlockSize |-> U32(16 * bh + 256 * bd),
                 dstWidth |-> U32(w[2]), dstHeight |-> U32(16), dstDepth |-> U32(d),
                 dstBlockSize |-> U32(16 * bh + 256 * bd)]) :
        w \in DispatchWidths, lc \in {1, 9, 16}, d \in {1, 2},
        bh \in {0, 1}, bd \in {0, 1}, pad \in {0, 16}}

\* the copier call CopyPitchToBlockLinear makes over the register file r, as
\* the parameters of a copy into the surface r declares
DispatchedCopy(r) ==
    LET launched == CopyPitchToBlockLinear([regs |-> r, trace |-> <<>>, gpuTime |-> 0])
        call     == launched.trace[Len(launched.trace)]
        surf     == Surface(r, "dst")
        full     == call.op = "CopyPitchToBlockLinear"
    IN  [kind |-> IF full THEN "full" ELSE "subrect",
         dimensions |-> NatDimensions(IF full THEN call.dimensions ELSE call.pitchDimensions),
         blockLinearDimensions |-> NatDimensions(<<surf.width, surf.height, surf.depth>>),
         formatBlockWidth |-> 1, formatBlockHeight |-> 1, formatBpb |-> 1,
         pitchAmount |-> ToNat(call.pitchAmount),
         gobBlockHeight |-> call.gobBlockHeight, gobBlockDepth |-> call.gobBlockDepth,
         originX |-> IF full THEN 0 ELSE ToNat(call.originX),
         originY |-> IF full THEN 0 ELSE ToNat(call.originY),
         u96Bytes |-> 12, fault |-> FALSE]

InitDispatch ==
    /\ regs \in DispatchRegisters
    /\ mmu = [a \in GpuAddrs |-> 1]
    /\ cp = DispatchedCopy(regs)
    /\ pitchBuf = PitchLabels(cp)
    /\ blBuf = OldBlockLinear(cp)
    /\ phase = "ready"
    /\ trace = <<>>
    /\ lastCall = [kind |-> "none", method |-> "nop", arguments |-> <<>>]
    /\ gpuTime = 1000
    /\ calls = 0

SpecDispatch == InitDispatch /\ [][NextCopy]_vars

\* the sub-rectangle copier for the pitch rectangle of cp at origin (0, 0) of
\* the surface the registers declare
SubrectAtOrigin(blockLinearToPitch, blockLinear, pitch) ==
    CopyBlockLinearSubrectInternal(blockLinearToPitch, cp.dimensions, cp.blockLinearDimensions,
                                   cp.formatBlockWidth, cp.formatBlockHeight, cp.formatBpb,
                                   cp.pitchAmount, cp.gobBlockHeight, cp.gobBlockDepth,
                                   blockLinear, pitch, 0, 0, cp.u96Bytes)

\* C22: whenever the launch selects the full-surface copier, the block-linear
\* bytes it writes and reads are those the sub-rectangle copier addresses for
\* the rectangle lineLengthIn x lineCount at origin (0, 0) of the surface of
\* the declared width, height and depth, so that the choice of copier never
\* changes the result, also when lineLengthIn differs from the surface width.
C22_FullCopierAgreesWithSubrect ==
    cp.kind = "full" /\ regs \in DispatchRegisters =>
        /\ phase = "swizzled" => blBuf = SubrectAtOrigin(FALSE, OldBlockLinear(cp), pitchBuf).buf
        /\ phase = "restored" => pitchBuf = SubrectAtOrigin(TRUE, blBuf, BlankPitch(cp)).buf

\* 64 x 16 bytes into a surface 100 bytes wide in blocks of one GOB: the full
\* copier was chosen and put line 8 at offset 512, inside the first row of
\* blocks of the surface, whose second row starts at 128 * 8 = 1024
C22_Witness ==
    /\ phase = "swizzled"
    /\ cp.kind = "full"
    /\ regs["lineLengthIn"] = U32(64) /\ regs["dstWidth"] = U32(100)
    /\ regs["lineCount"] = U32(16) /\ regs["pitchIn"] = U32(64)
    /\ cp.dimensions = <<64, 16, 1>> /\ cp.blockLinearDimensions = <<100, 16, 1>>
    /\ cp.gobBlockHeight = 1 /\ cp.gobBlockDepth = 1
    /\ blBuf[512] = PitchLabels(cp)[8 * 64]
    /\ blBuf[1024] = OldBlockLinear(cp)[1024]
    /\ SubrectAtOrigin(FALSE, OldBlockLinear(cp), pitchBuf).buf[1024] = PitchLabels(cp)[8 * 64]

-----------------------------------------------------------------------------
(* Layout calculator (layout.cpp): the three size functions applied in turn to
   one surface description. cp holds the arguments and, once computed, the
   results; the buffers and the DMA engine stay idle. *)

MaxLevels == 5

\* <<formatBlockWidth, formatBlockHeight, formatBpb>>
LayoutFormats == {<<1, 1, 1>>, <<1, 1, 4>>, <<1, 1, 12>>, <<4, 4, 8>>}

\* the format a compressed texture is decoded to: <<blockWidth, blockHeight, bpb>>,
\* bpb 0 when the texture is used as it is
TargetFormat(f) == IF f[1] > 1 THEN <<1, 1, 4>> ELSE <<1, 1, 0>>

LayoutParams ==
    {[kind |-> "layout", dimensions |-> <<w, h, d>>,
      formatBlockWidth |-> f[1], formatBlockHeight |-> f[2], formatBpb |-> f[3],
      gobBlockHeight |-> gbh, gobBlockDepth |-> gbd,
      levelCount |-> n, isMultiLayer |-> multi,
      layerSize |-> 0 - 1, mipLevels |-> <<>>, levelsSize |-> 0 - 1] :
        w \in {1, 100, 128, 256}, h \in {1, 16, 70, 256}, d \in {1, 5},
        f \in LayoutFormats, gbh \in {1, 2, 4, 16}, gbd \in {1, 2, 4},
        n \in 0..MaxLevels, multi \in BOOLEAN}

InitLayout ==
    /\ cp \in LayoutParams
    /\ pitchBuf = <<>>
    /\ blBuf = <<>>
    /\ phase = "ready"
    /\ regs = ZeroRegisters
    /\ trace = <<>>
    /\ lastCall = [kind |-> "none", method |-> "nop", arguments |-> <<>>]
    /\ gpuTime = 1000
    /\ mmu = [a \in GpuAddrs |-> 1]
    /\ calls = 0

\* GetBlockLinearLayerSize of one level
LayerSize ==
    /\ phase = "ready"
    /\ cp' = [cp EXCEPT !.layerSize =
                  GetBlockLinearLayerSize(cp.dimensions, cp.formatBlockWidth,
                                          cp.formatBlockHeight, cp.formatBpb,
                                          cp.gobBlockHeight, cp.gobBlockDepth)]
    /\ phase' = "sized"
    /\ UNCHANGED <<pitchBuf, blBuf, dmaVars>>

\* GetBlockLinearMipLayout
MipLayout ==
    /\ phase = "sized"
    /\ cp' = [cp EXCEPT !.mipLevels =
                  LET target == TargetFormat(<<cp.formatBlockWidth, cp.formatBlockHeight,
                                               cp.formatBpb>>)
                  IN  GetBlockLinearMipLayout(cp.dimensions, cp.formatBlockHeight,
                                              cp.formatBlockWidth, cp.formatBpb,
                                              target[2], target[1], target[3],
                                              cp.gobBlockHeight, cp.gobBlockDepth,
                                              cp.levelCount)]
    /\ phase' = "laidOut"
    /\ UNCHANGED <<pitchBuf, blBuf, dmaVars>>

\* GetBlockLinearLayerSize of all levels
LayerSizeLevels ==
    /\ phase = "laidOut"
    /\ cp' = [cp EXCEPT !.levelsSize =
                  GetBlockLinearLayerSizeLevels(cp.dimensions, cp.formatBlockHeight,
                                                cp.formatBlockWidth, cp.formatBpb,
                                                cp.gobBlockHeight, cp.gobBlockDepth,
                                                cp.levelCount, cp.isMultiLayer)]
    /\ phase' = "measured"
    /\ UNCHANGED <<pitchBuf, blBuf, dmaVars>>

NextLayout == LayerSize \/ MipLayout \/ LayerSizeLevels

SpecLayout == InitLayout /\ [][NextLayout]_vars

-----------------------------------------------------------------------------
(* Properties of the layout calculator *)

\* the quotient a / b rounded up
Ceil(a, b) == IF a % b = 0 THEN a \div b ELSE (a \div b) + 1

\* the least multiple of b not below a
RoundUp(a, b) == IF a % b = 0 THEN a ELSE a + (b - (a % b))

\* C16: the single-layer GetBlockLinearLayerSize returns
\* align_up(ceil(w / fmtBw) * bpb, 64) * (8 * gbh) * ceil(ceil(h / fmtBh) / (8 * gbh))
\* * align_up(d, gbd) for every input, and 8192 for {128, 16, 1}, 1, 1, 4, 2, 1.
C16_LayerSizeFormula ==
    phase # "ready" /\ cp.kind = "layout" =>
        /\ cp.layerSize = RoundUp(Ceil(cp.dimensions[1], cp.formatBlockWidth) * cp.formatBpb, 64)
                          * (8 * cp.gobBlockHeight)
                          * Ceil(Ceil(cp.dimensions[2], cp.formatBlockHeight),
                                 8 * cp.gobBlockHeight)
                          * RoundUp(cp.dimensions[3], cp.gobBlockDepth)
        /\ (/\ cp.dimensions = <<128, 16, 1>>
            /\ <<cp.formatBlockWidth, cp.formatBlockHeight, cp.formatBpb>> = <<1, 1, 4>>
            /\ <<cp.gobBlockHeight, cp.gobBlockDepth>> = <<2, 1>>) => cp.layerSize = 8192

\* the size of {128, 16, 1} with 4-byte texels and blocks two GOBs high has
\* been computed
C16_Witness ==
    /\ phase = "sized"
    /\ cp.kind = "layout"
    /\ cp.dimensions = <<128, 16, 1>>
    /\ <<cp.formatBlockWidth, cp.formatBlockHeight, cp.formatBpb>> = <<1, 1, 4>>
    /\ <<cp.gobBlockHeight, cp.gobBlockDepth>> = <<2, 1>>
    /\ cp.layerSize = 8192

RECURSIVE SumBlockLinearSize(_)
SumBlockLinearSize(levels) ==
    IF levels = <<>> THEN 0
    ELSE Head(levels).blockLinearSize + SumBlockLinearSize(Tail(levels))

\* C17: the blockLinearSize of the levels GetBlockLinearMipLayout returns add up to
\* what the multi-level GetBlockLinearLayerSize returns for the same arguments
\* with isMultiLayer = false.
C17_MipSizesSumToLayerSize ==
    phase = "measured" /\ cp.kind = "layout" /\ ~cp.isMultiLayer =>
        /\ Len(cp.mipLevels) = cp.levelCount
        /\ SumBlockLinearSize(cp.mipLevels) = cp.levelsSize

\* a chain of MaxLevels levels whose block height and block depth both shrink
\* on the way down, and whose total is not a multiple of the layer alignment
C17_Witness ==
    /\ phase = "measured"
    /\ cp.kind = "layout"
    /\ ~cp.isMultiLayer
    /\ cp.levelCount = MaxLevels
    /\ cp.dimensions[3] > 1
    /\ cp.mipLevels[MaxLevels].gobBlockHeight < cp.gobBlockHeight
    /\ cp.mipLevels[MaxLevels].gobBlockDepth < cp.gobBlockDepth
    /\ cp.levelsSize % (GobWidth * GobHeight * cp.gobBlockHeight * cp.gobBlockDepth) # 0
    /\ cp.levelsSize = SumBlockLinearSize(cp.mipLevels)

\* the surface of scenario S3 with its mip chain computed
IsS3 ==
    /\ cp.kind = "layout"
    /\ phase \in {"laidOut", "measured"}
    /\ cp.dimensions = <<256, 256, 1>>
    /\ <<cp.formatBlockWidth, cp.formatBlockHeight, cp.formatBpb>> = <<1, 1, 4>>
    /\ <<cp.gobBlockHeight, cp.gobBlockDepth>> = <<4, 1>>
    /\ cp.levelCount = 5

\* C19 as stated: level 0 of S3 takes 256 * 256 * 4 bytes linear and block linear,
\* the block height is 4 for levels 0 to 2 and smaller than 4 at level 3.
C19_CollapseAtLevel3 ==
    IsS3 =>
        /\ cp.mipLevels[1].linearSize = 256 * 256 * 4
        /\ cp.mipLevels[1].blockLinearSize = 256 * 256 * 4
        /\ \A l \in 0..2 : cp.mipLevels[l + 1].gobBlockHeight = 4
        /\ cp.mipLevels[3 + 1].gobBlockHeight < 4

\* C19: level 0 of S3 takes 256 * 256 * 4 bytes linear and block linear, the
\* block height is 4 for levels 0 to 3 (level 3 is still 4 GOBs high) and
\* becomes 2 at level 4, which is 2 GOBs high.
C19_CollapseAtLevel4 ==
    IsS3 =>
        /\ cp.mipLevels[1].linearSize = 256 * 256 * 4
        /\ cp.mipLevels[1].targetLinearSize = 256 * 256 * 4
        /\ cp.mipLevels[1].blockLinearSize = 256 * 256 * 4
        /\ \A l \in 0..3 : cp.mipLevels[l + 1].gobBlockHeight = 4
        /\ cp.mipLevels[4 + 1].gobBlockHeight = 2
        /\ \A l \in 0..4 : cp.mipLevels[l + 1].gobBlockDepth = 1

C19_Witness ==
    /\ IsS3
    /\ phase = "laidOut"
    /\ Len(cp.mipLevels) = 5
    /\ cp.mipLevels[5].dimensions = <<16, 16, 1>>

\* the mip chain has been computed
IsLaidOut == cp.kind = "layout" /\ phase \in {"laidOut", "measured"}

\* the single-layer size of the surface level l of the chain records
LevelLayerSize(l) ==
    GetBlockLinearLayerSize(cp.mipLevels[l].dimensions, cp.formatBlockWidth,
                            cp.formatBlockHeight, cp.formatBpb,
                            cp.mipLevels[l].gobBlockHeight, cp.mipLevels[l].gobBlockDepth)

\* C25: every level GetBlockLinearMipLayout returns has a blockLinearSize that
\* is at least its linearSize and equals the single-layer
\* GetBlockLinearLayerSize of the level's recorded dimensions, block height
\* and block depth, for starting dimensions that are powers of two or not.
C25_LevelHoldsItsTexels ==
    IsLaidOut =>
        \A l \in 1..Len(cp.mipLevels) :
            /\ cp.mipLevels[l].blockLinearSize >= cp.mipLevels[l].linearSize
            /\ cp.mipLevels[l].blockLinearSize = LevelLayerSize(l)

\* 100 x 16 texels of 4 bytes in blocks of one GOB: level 1 is 50 x 8 texels,
\* 1600 bytes in rows of 200, and is given 3 GOBs, 1536 bytes, where the
\* single-layer size of a 50 x 8 surface is 4 GOBs
C25_Witness ==
    /\ IsLaidOut
    /\ cp.dimensions = <<100, 16, 1>>
    /\ <<cp.formatBlockWidth, cp.formatBlockHeight, cp.formatBpb>> = <<1, 1, 4>>
    /\ <<cp.gobBlockHeight, cp.gobBlockDepth>> = <<1, 1>>
    /\ cp.levelCount = 2
    /\ cp.mipLevels[2].dimensions = <<50, 8, 1>>
    /\ cp.mipLevels[2].linearSize = 1600
    /\ cp.mipLevels[2].blockLinearSize = 1536
    /\ LevelLayerSize(2) = 2048

RECURSIVE IsPowerOfTwo(_)
IsPowerOfTwo(n) == n = 1 \/ (n > 1 /\ n % 2 = 0 /\ IsPowerOfTwo(n \div 2))

\* max(1, floor(value / 2))
HalfAtLeastOne(value) == IF value <= 3 THEN 1 ELSE CHOOSE q \in 1..value : 2 * q <= value /\ value < 2 * q + 2

\* the smaller of two numbers
Min(a, b) == IF a <= b THEN a ELSE b

\* the surface heights and depths, in GOBs, that a block size is collapsed on
SurfaceGobs == 1..40

\* C26: in the list GetBlockLinearMipLayout returns, each dimension of level
\* N + 1 is max(1, floor(dimension of level N / 2)), and gobBlockHeight and
\* gobBlockDepth of level N + 1 are powers of two not above their values at
\* level N; CalculateBlockGobs(block, surface) is a power of two, at most
\* block and at least min(block, surface), when block is a power of two.
C26_HalvedDimensionsShrinkingBlocks ==
    IsLaidOut =>
        /\ \A l \in 1..(Len(cp.mipLevels) - 1) :
              LET this == cp.mipLevels[l]
                  next == cp.mipLevels[l + 1]
              IN  /\ \A axis \in 1..3 :
                        next.dimensions[axis] = HalfAtLeastOne(this.dimensions[axis])
                  /\ IsPowerOfTwo(next.gobBlockHeight)
                  /\ IsPowerOfTwo(next.gobBlockDepth)
                  /\ next.gobBlockHeight <= this.gobBlockHeight
                  /\ next.gobBlockDepth <= this.gobBlockDepth
        /\ \A surface \in SurfaceGobs :
              \A block \in {cp.gobBlockHeight, cp.gobBlockDepth} :
                  LET collapsed == CalculateBlockGobs(block, surface)
                  IN  /\ IsPowerOfTwo(collapsed)
                      /\ collapsed <= block
                      /\ collapsed >= Min(block, surface)

\* a chain of MaxLevels levels of a 100 x 70 x 5 surface: the odd sizes 25, 35
\* and 5 are halved to 12, 17 and 2, and the block height and the block depth
\* both end smaller than they started
C26_Witness ==
    /\ IsLaidOut
    /\ cp.dimensions = <<100, 70, 5>>
    /\ cp.levelCount = MaxLevels
    /\ cp.gobBlockHeight = 16
    /\ cp.gobBlockDepth = 4
    /\ cp.mipLevels[2].dimensions = <<50, 35, 2>>
    /\ cp.mipLevels[3].dimensions = <<25, 17, 1>>
    /\ cp.mipLevels[4].dimensions = <<12, 8, 1>>
    /\ cp.mipLevels[MaxLevels].gobBlockHeight < 16
    /\ cp.mipLevels[MaxLevels].gobBlockDepth < 4

====
